---------------------------- MODULE Spec2Model ----------------------------
(***************************************************************************)
(* A model of the zo-keeper: the liquidator's shard predicate, evaluation   *)
(* pass, perp liquidation retry loops, choice of action, margin fractions, *)
(* pnl vectors, spot sizing, bankruptcy settlement and account mirror; the *)
(* event-queue consumer; the crank's chunked streams, dispatch and timers; *)
(* the recorder's store, trade updates, log paths, funding poll,           *)
(* subscriptions and signature poll.  Each subsystem has its own           *)
(* specification (SpecShard, SpecPerp, SpecConsumer, SpecLiq, SpecInsert,  *)
(* SpecTrade, SpecLogs, SpecFunding, SpecChoose, SpecMf, SpecEstimate,     *)
(* SpecDispatch, SpecTimer, SpecWeight, SpecHalves, SpecTable, SpecChunks, *)
(* SpecStream, SpecSettle, SpecPnl, SpecSpot, SpecSubs, SpecPoll) over the *)
(* variables it owns; the variables of the other subsystems stay at their  *)
(* idle values.                                                            *)
(***************************************************************************)
EXTENDS Integers, Sequences, FiniteSets, TLC

VARIABLES
    \* ---- is_right_remainder (liquidator/utils.rs) ----
    sh_key,        \* the 32 bytes of the Pubkey
    sh_modulus,    \* worker_count (u8)
    sh_remainder,  \* worker_index (u8)
    sh_checks,     \* TRUE: the build has overflow checks (panic), FALSE: wraps
    sh_i,          \* number of bytes already added
    sh_sum,        \* the u8 accumulator `sum`
    sh_pc,         \* "loop" | "done" | "panic"
    sh_ret,        \* the returned bool once sh_pc = "done"
    \* ---- liquidate_perp_position and retry_send ----
    pp_tav,        \* get_total_account_value of the liquidator (whole units)
    pp_price,      \* cache.marks[index].price
    pp_lot,        \* market_info.coin_lot_size
    pp_lots,       \* asset_transfer_lots (i64)
    pp_reduction,  \* `_reduction`, the index of the halving loop
    pp_attempt,    \* `_i`, the index of retry_send's loop
    pp_last_error, \* retry_send's last_error: "none" or the ClientErrorKind
    pp_last,       \* the outcome of the last send of the running retry_send
    pp_rs,         \* what the last retry_send returned
    pp_nsent,      \* how many transactions were sent so far
    pp_wire,       \* the last transaction sent: [lots: the u64 in liq_ix.data, round]
    pp_result,     \* what liquidate_perp_position returned
    pp_pc,         \* "calc" | "call" | "retry" | "ret" | "done"
    \* ---- one market's consumer loop (consumer.rs) ----
    cs_cfg,            \* ConsumerConfig: [to_consume, max_wait, max_queue_length]
    cs_now,            \* the clock, in units of the loop's 250 ms sleep
    cs_last_cranked_at,\* `last_cranked_at`
    cs_last_head,      \* `last_head` (u64)
    cs_accounts_table, \* the controls whose (open orders, margin) PDAs are cached
    cs_queue,          \* the market's event queue account: [head, events]
    cs_threads,        \* the spawned dispatch threads still running, oldest first
    cs_log,            \* what the last call of consume() did
    cs_pc,             \* "sleep" | "tick" | "panicked" (nothing is followed after a panic)
    \* ---- one evaluation pass of the liquidator (liquidator/accounts.rs) ----
    lq_marks,          \* cache.marks[i].price of every perp market
    lq_payer_loaded,   \* the liquidator's own Margin and Control are in the table
    lq_todo,           \* the keys of margin_table the pass has not come to yet
    lq_eval,           \* the Margin under evaluation and what is_liquidatable returned
    lq_handles,        \* `handles`: the spawned tasks, in spawn order
    lq_sent,           \* the force_cancel_all_perp_orders transactions sent by cancel tasks
    lq_lock,           \* TRUE while the pass holds the AccountTable mutex
    lq_result,         \* what check_all_accounts returned
    lq_pc,             \* "start" | "iter" | "decide" | "done" | "panicked"
    \* ---- one call of db.rs insert ----
    in_coll0,          \* the collection before the call
    in_coll,           \* the collection: a set of documents [key, tag]
    in_xs,             \* `xs`, the batch
    in_reply,          \* how the server answers this call
    in_calls,          \* the requests sent to the server, in order
    in_ret,            \* "none" | "Ok" | "Err"
    in_pc,             \* "call" | "done"
    \* ---- one market's listen_event_queue and its Trade::update tasks ----
    tr_fills,          \* the sequence numbers whose events are fills
    tr_eq,             \* eventQueue[symbol] in the store (0: no document yet)
    tr_trades,         \* the trades collection: documents [key: seqNum, tag: the call]
    tr_tasks,          \* the spawned Trade::update tasks, in spawn order
    \* ---- one transaction processed by listen_logs and by poll_logs ----
    lg_name,           \* the log-derived collection looked at
    lg_batch,          \* the unique-index keys of the documents parsed from the logs
    lg_coll,           \* the collection: documents [key, tag: the path that stored it]
    lg_index,          \* TRUE once the unique index exists
    lg_path,           \* per path, where its insert into the collection stands
    \* ---- poll_update_funding ----
    fd_markets,        \* last_updated of every market, as load_dex_markets reads it
    fd_prev,           \* `prev`: symbol -> the last_updated written last
    fd_funding,        \* the funding collection: documents [key: <<symbol, time>>, tag]
    fd_batch,          \* the symbols of `new_entries` of the last tick
    fd_log,            \* what the last tick did
    \* ---- one call of liquidate() (liquidator/liquidation.rs) ----
    ch_colls,          \* `colls`: the value of every collateral of the account
    ch_weights,        \* state.collaterals[i].weight of those collaterals
    ch_pos,            \* open_orders_agg[m].pos_size of every market
    ch_marks,          \* cache.marks[m].price of every market
    ch_control,        \* the orders of open_orders_agg
    ch_actions,        \* the actions called, in order
    ch_ret,            \* "none" | "Ok" | "Err"
    ch_pc,             \* "start" | "done"
    \* ---- one check_mf call and a lowered collateral (liquidator/margin_utils.rs) ----
    mf_acct,           \* the Margin, Control, State and Cache fields check_mf reads
    mf_check,          \* the FractionType asked for
    mf_tol,            \* `tolerance`
    mf_lowered,        \* the collateral lowered by one small unit (0: none)
    mf_raised,         \* [i, by]: the collateral raised and by how much (i = 0: none)
    mf_ok,             \* "none" | "true" | "false" | "panic": what check_mf returned
    mf_pc,             \* "start" | "checked" | "lowered"
    \* ---- one call of estimate_spot_liquidation_size (liquidator/margin_utils.rs) ----
    es_acct,           \* the Margin, Control, State and Cache fields it reads
    es_asset,          \* asset_index
    es_quote,          \* quote_index
    es_ret,            \* [kind: "none" | "None" | "Some" | "panic", value]
    es_pc,             \* "start" | "done"
    \* crank dispatch (crank.rs)
    dp_bh,          \* blockhash the transaction was signed with (0: none yet)
    dp_sg,          \* signature returned by send_transaction (0: none yet)
    dp_statuses,    \* what each get_signature_status call answered, in order
    dp_valid,       \* what the last is_blockhash_valid call answered, or "error"
    dp_ret,         \* what aux() returned
    dp_pc,          \* position inside dispatch
    \* periodic timer of the crank and liquidator loops (crank.rs, liquidation.rs)
    tm_period,      \* the Interval's period
    tm_now,         \* the clock
    tm_deadline,    \* the Interval's next deadline
    tm_first,       \* when the first tick fired (-1: not yet)
    tm_last,        \* the last tick: when it fired and the deadline it was due at
    tm_pc,          \* "tick": the loop awaits interval.tick(); "body": it runs its body
    \* weight_conversion (margin_utils.rs)
    wc_type,        \* return_type
    wc_position,    \* position
    wc_weight,      \* base_weight
    wc_spot,        \* is_spot
    wc_ret,         \* what the call returned, or that it panicked
    wc_pc,
    \* the consumer's dispatch thread and its account lists (consumer.rs)
    hv_used,        \* used_control: the controls of this dispatch
    hv_table,       \* accounts_table: control -> (open orders, margin)
    hv_lists,       \* control_accounts, orders_accounts, margin_accounts
    hv_sent,        \* the instructions the thread has sent, in order
    hv_pc,          \* "build" | "consume_events" | "crank_pnl_1" | "crank_pnl_2" | "done"
    \* the liquidator's AccountTable, its listener and its refresh (accounts.rs, listener.rs)
    at_opts,        \* Opts: [num_workers, n]
    at_payer,       \* the user whose key is payer_pubkey
    at_chain,       \* the program's accounts on chain, per user: [live, cver, mver]
    at_changes,     \* how many times the chain has changed
    at_stream,      \* the Commands in the channel, oldest first
    at_table,       \* AccountTable: [margin_table, control_table, size]
    at_elapsed,     \* last_refresh.elapsed(), in seconds (saturating past the threshold)
    at_pc,          \* "start" | "run" | "panicked"
    \* the crank's chunked streams (crank.rs run)
    ck_kind,        \* "cache_oracle" | "update_funding"
    ck_items,       \* zo_cache.oracles, or zo_state.perp_markets, by symbol
    ck_tasks,       \* the chunk each loop_blocking task carries
    ck_sent,        \* the transactions of the current tick, by task
    ck_pc,          \* "run" | "ticking" | "failed"
    \* one crank stream (crank.rs loop_blocking)
    lb_chunk,       \* the chunk captured by the stream's closure
    lb_ticks,       \* ticks of the stream's interval so far
    lb_jobs,        \* the jobs handed to the blocking pool, in order
    lb_pc,          \* "looping"
    \* settle_bankruptcy (liquidation.rs)
    sb_collateral,  \* liqee_margin.collateral, by index
    sb_total,       \* the collaterals of the state that have a mint: 1..sb_total
    sb_serum,       \* the indices that have a serum market and vault signer
    sb_i,           \* the index the first loop is at
    sb_attempt,     \* the attempt retry_send is at
    sb_txs,         \* by index: the sends made and the instructions carried
    sb_results,     \* signature_results
    sb_ret,         \* "none" | "Ok" | "SettlementFailure"
    sb_pc,          \* "loop" | "retry" | "done"
    \* get_pnl_vectors (margin_utils.rs)
    pv_acct,        \* the Control, State and Cache fields the call reads
    pv_realized,    \* realized_pnls of the perp slot
    pv_unrealized,  \* unrealized_pnls of the perp slot
    pv_pc,          \* "start" | "done"
    \* liquidate_spot_position: the amount of the first instruction
    sp_acct,        \* the liqee's Margin and Control, the State and the Cache
    sp_asset,       \* asset_index
    sp_quote,       \* quote_index
    sp_tav,         \* get_total_account_value of the liquidator
    sp_usdc,        \* usdc_amount
    sp_wire,        \* asset_transfer_amount of the instruction
    sp_pc,          \* "start" | "built" | "panic"
    \* one subscription of the recorder (recorder.rs)
    su_kind,        \* "logs" | "event_queue"
    su_now,         \* the time, in seconds
    su_deadline,    \* the next tick of listen_logs' interval
    su_last,        \* when the last connection attempt was made; -1: never
    su_gap,         \* the shortest time between two consecutive attempts
    su_pc,          \* "tick" | "connect" | "stream" | "panicked"
    \* poll_logs (recorder.rs)
    pl_chain,       \* the transactions on the state account, oldest first
    pl_last_slot,   \* last_slot
    pl_tasks,       \* the signatures whose blocking job has not run yet
    pl_processed,   \* the signatures handed to events::process
    pl_pc           \* "polling"

sh_vars == <<sh_key, sh_modulus, sh_remainder, sh_checks, sh_i, sh_sum, sh_pc, sh_ret>>

pp_vars == <<pp_tav, pp_price, pp_lot, pp_lots, pp_reduction, pp_attempt, pp_last_error,
             pp_last, pp_rs, pp_nsent, pp_wire, pp_result, pp_pc>>

cs_vars == <<cs_cfg, cs_now, cs_last_cranked_at, cs_last_head, cs_accounts_table, cs_queue,
             cs_threads, cs_log, cs_pc>>

lq_vars == <<lq_marks, lq_payer_loaded, lq_todo, lq_eval, lq_handles, lq_sent, lq_lock,
             lq_result, lq_pc>>

in_vars == <<in_coll0, in_coll, in_xs, in_reply, in_calls, in_ret, in_pc>>

tr_vars == <<tr_fills, tr_eq, tr_trades, tr_tasks>>

lg_vars == <<lg_name, lg_batch, lg_coll, lg_index, lg_path>>

fd_vars == <<fd_markets, fd_prev, fd_funding, fd_batch, fd_log>>

ch_vars == <<ch_colls, ch_weights, ch_pos, ch_marks, ch_control, ch_actions, ch_ret, ch_pc>>

mf_vars == <<mf_acct, mf_check, mf_tol, mf_lowered, mf_raised, mf_ok, mf_pc>>

es_vars == <<es_acct, es_asset, es_quote, es_ret, es_pc>>

dp_vars == <<dp_bh, dp_sg, dp_statuses, dp_valid, dp_ret, dp_pc>>

tm_vars == <<tm_period, tm_now, tm_deadline, tm_first, tm_last, tm_pc>>

wc_vars == <<wc_type, wc_position, wc_weight, wc_spot, wc_ret, wc_pc>>

hv_vars == <<hv_used, hv_table, hv_lists, hv_sent, hv_pc>>

at_vars == <<at_opts, at_payer, at_chain, at_changes, at_stream, at_table, at_elapsed, at_pc>>

ck_vars == <<ck_kind, ck_items, ck_tasks, ck_sent, ck_pc>>

lb_vars == <<lb_chunk, lb_ticks, lb_jobs, lb_pc>>

sb_vars == <<sb_collateral, sb_total, sb_serum, sb_i, sb_attempt, sb_txs, sb_results, sb_ret, sb_pc>>

pv_vars == <<pv_acct, pv_realized, pv_unrealized, pv_pc>>

sp_vars == <<sp_acct, sp_asset, sp_quote, sp_tav, sp_usdc, sp_wire, sp_pc>>

su_vars == <<su_kind, su_now, su_deadline, su_last, su_gap, su_pc>>

pl_vars == <<pl_chain, pl_last_slot, pl_tasks, pl_processed, pl_pc>>

vars == <<sh_vars, pp_vars, cs_vars, lq_vars, in_vars, tr_vars, lg_vars, fd_vars, ch_vars, mf_vars, es_vars, dp_vars, tm_vars, wc_vars, hv_vars, at_vars, ck_vars, lb_vars, sb_vars, pv_vars, sp_vars, su_vars, pl_vars>>

\* What an action of one subsystem leaves alone: the other subsystems.
ShardFrame == UNCHANGED <<pp_vars, cs_vars, lq_vars, in_vars, tr_vars, lg_vars, fd_vars, ch_vars, mf_vars, es_vars, dp_vars, tm_vars, wc_vars, hv_vars, at_vars, ck_vars, lb_vars, sb_vars, pv_vars, sp_vars, su_vars, pl_vars>>

PerpFrame == UNCHANGED <<sh_vars, cs_vars, lq_vars, in_vars, tr_vars, lg_vars, fd_vars, ch_vars, mf_vars, es_vars, dp_vars, tm_vars, wc_vars, hv_vars, at_vars, ck_vars, lb_vars, sb_vars, pv_vars, sp_vars, su_vars, pl_vars>>

ConsumerFrame == UNCHANGED <<sh_vars, pp_vars, lq_vars, in_vars, tr_vars, lg_vars, fd_vars, ch_vars, mf_vars, es_vars, dp_vars, tm_vars, wc_vars, hv_vars, at_vars, ck_vars, lb_vars, sb_vars, pv_vars, sp_vars, su_vars, pl_vars>>

LiqFrame == UNCHANGED <<sh_vars, pp_vars, cs_vars, in_vars, tr_vars, lg_vars, fd_vars, ch_vars, mf_vars, es_vars, dp_vars, tm_vars, wc_vars, hv_vars, at_vars, ck_vars, lb_vars, sb_vars, pv_vars, sp_vars, su_vars, pl_vars>>

InsertFrame == UNCHANGED <<sh_vars, pp_vars, cs_vars, lq_vars, tr_vars, lg_vars, fd_vars, ch_vars, mf_vars, es_vars, dp_vars, tm_vars, wc_vars, hv_vars, at_vars, ck_vars, lb_vars, sb_vars, pv_vars, sp_vars, su_vars, pl_vars>>

TradeFrame == UNCHANGED <<sh_vars, pp_vars, cs_vars, lq_vars, in_vars, lg_vars, fd_vars, ch_vars, mf_vars, es_vars, dp_vars, tm_vars, wc_vars, hv_vars, at_vars, ck_vars, lb_vars, sb_vars, pv_vars, sp_vars, su_vars, pl_vars>>

LogsFrame == UNCHANGED <<sh_vars, pp_vars, cs_vars, lq_vars, in_vars, tr_vars, fd_vars, ch_vars, mf_vars, es_vars, dp_vars, tm_vars, wc_vars, hv_vars, at_vars, ck_vars, lb_vars, sb_vars, pv_vars, sp_vars, su_vars, pl_vars>>

FundingFrame == UNCHANGED <<sh_vars, pp_vars, cs_vars, lq_vars, in_vars, tr_vars, lg_vars, ch_vars, mf_vars, es_vars, dp_vars, tm_vars, wc_vars, hv_vars, at_vars, ck_vars, lb_vars, sb_vars, pv_vars, sp_vars, su_vars, pl_vars>>

ChooseFrame == UNCHANGED <<sh_vars, pp_vars, cs_vars, lq_vars, in_vars, tr_vars, lg_vars, fd_vars, mf_vars, es_vars, dp_vars, tm_vars, wc_vars, hv_vars, at_vars, ck_vars, lb_vars, sb_vars, pv_vars, sp_vars, su_vars, pl_vars>>

MfFrame == UNCHANGED <<sh_vars, pp_vars, cs_vars, lq_vars, in_vars, tr_vars, lg_vars, fd_vars, ch_vars, es_vars, dp_vars, tm_vars, wc_vars, hv_vars, at_vars, ck_vars, lb_vars, sb_vars, pv_vars, sp_vars, su_vars, pl_vars>>

EstimateFrame == UNCHANGED <<sh_vars, pp_vars, cs_vars, lq_vars, in_vars, tr_vars, lg_vars, fd_vars, ch_vars, mf_vars, dp_vars, tm_vars, wc_vars, hv_vars, at_vars, ck_vars, lb_vars, sb_vars, pv_vars, sp_vars, su_vars, pl_vars>>

DispatchFrame == UNCHANGED <<sh_vars, pp_vars, cs_vars, lq_vars, in_vars, tr_vars, lg_vars, fd_vars, ch_vars, mf_vars, es_vars, tm_vars, wc_vars, hv_vars, at_vars, ck_vars, lb_vars, sb_vars, pv_vars, sp_vars, su_vars, pl_vars>>

TimerFrame == UNCHANGED <<sh_vars, pp_vars, cs_vars, lq_vars, in_vars, tr_vars, lg_vars, fd_vars, ch_vars, mf_vars, es_vars, dp_vars, wc_vars, hv_vars, at_vars, ck_vars, lb_vars, sb_vars, pv_vars, sp_vars, su_vars, pl_vars>>

WeightFrame == UNCHANGED <<sh_vars, pp_vars, cs_vars, lq_vars, in_vars, tr_vars, lg_vars, fd_vars, ch_vars, mf_vars, es_vars, dp_vars, tm_vars, hv_vars, at_vars, ck_vars, lb_vars, sb_vars, pv_vars, sp_vars, su_vars, pl_vars>>

HalvesFrame == UNCHANGED <<sh_vars, pp_vars, cs_vars, lq_vars, in_vars, tr_vars, lg_vars, fd_vars, ch_vars, mf_vars, es_vars, dp_vars, tm_vars, wc_vars, at_vars, ck_vars, lb_vars, sb_vars, pv_vars, sp_vars, su_vars, pl_vars>>

TableFrame == UNCHANGED <<sh_vars, pp_vars, cs_vars, lq_vars, in_vars, tr_vars, lg_vars, fd_vars, ch_vars, mf_vars, es_vars, dp_vars, tm_vars, wc_vars, hv_vars, ck_vars, lb_vars, sb_vars, pv_vars, sp_vars, su_vars, pl_vars>>

ChunksFrame == UNCHANGED <<sh_vars, pp_vars, cs_vars, lq_vars, in_vars, tr_vars, lg_vars, fd_vars, ch_vars, mf_vars, es_vars, dp_vars, tm_vars, wc_vars, hv_vars, at_vars, lb_vars, sb_vars, pv_vars, sp_vars, su_vars, pl_vars>>

StreamFrame == UNCHANGED <<sh_vars, pp_vars, cs_vars, lq_vars, in_vars, tr_vars, lg_vars, fd_vars, ch_vars, mf_vars, es_vars, dp_vars, tm_vars, wc_vars, hv_vars, at_vars, ck_vars, sb_vars, pv_vars, sp_vars, su_vars, pl_vars>>

SettleFrame == UNCHANGED <<sh_vars, pp_vars, cs_vars, lq_vars, in_vars, tr_vars, lg_vars, fd_vars, ch_vars, mf_vars, es_vars, dp_vars, tm_vars, wc_vars, hv_vars, at_vars, ck_vars, lb_vars, pv_vars, sp_vars, su_vars, pl_vars>>

PnlFrame == UNCHANGED <<sh_vars, pp_vars, cs_vars, lq_vars, in_vars, tr_vars, lg_vars, fd_vars, ch_vars, mf_vars, es_vars, dp_vars, tm_vars, wc_vars, hv_vars, at_vars, ck_vars, lb_vars, sb_vars, sp_vars, su_vars, pl_vars>>

SpotFrame == UNCHANGED <<sh_vars, pp_vars, cs_vars, lq_vars, in_vars, tr_vars, lg_vars, fd_vars, ch_vars, mf_vars, es_vars, dp_vars, tm_vars, wc_vars, hv_vars, at_vars, ck_vars, lb_vars, sb_vars, pv_vars, su_vars, pl_vars>>

SubsFrame == UNCHANGED <<sh_vars, pp_vars, cs_vars, lq_vars, in_vars, tr_vars, lg_vars, fd_vars, ch_vars, mf_vars, es_vars, dp_vars, tm_vars, wc_vars, hv_vars, at_vars, ck_vars, lb_vars, sb_vars, pv_vars, sp_vars, pl_vars>>

PollFrame == UNCHANGED <<sh_vars, pp_vars, cs_vars, lq_vars, in_vars, tr_vars, lg_vars, fd_vars, ch_vars, mf_vars, es_vars, dp_vars, tm_vars, wc_vars, hv_vars, at_vars, ck_vars, lb_vars, sb_vars, pv_vars, sp_vars, su_vars>>

(***************************************************************************)
(* Sharding: is_right_remainder                                            *)
(***************************************************************************)

\* A Pubkey is 32 bytes.
KeyLen == 32

\* u8 arithmetic wraps at 256 when overflow checks are off.
U8Mod == 256

\* Largest worker_count of the dense range of moduli the model draws.
MaxWorkers == 9

ByteSamples == {0, 8, 127, 255}

SplitSamples == {0, 1, 16, 31, KeyLen}

\* worker_count is a u8 >= 1 (0 divides by zero before any shard is computed).
ModulusSamples == (1..MaxWorkers) \cup {128, 255}

\* The keys the model draws: the first n bytes are b1, the rest b2.
KeySamples ==
    { [i \in 1..KeyLen |-> IF i <= n THEN b1 ELSE b2] :
        n \in SplitSamples, b1 \in ByteSamples, b2 \in ByteSamples }

\* `sum += byte % modulus` on a u8: the mathematical value before it is stored.
AddByte(sum, byte, modulus) == sum + (byte % modulus)

\* The accumulator after the bytes 1..n; panic is set when an addition
\* overflowed in a build with overflow checks.
RECURSIVE SumBytes(_, _, _, _)
SumBytes(key, modulus, n, checks) ==
    IF n = 0 THEN [panic |-> FALSE, sum |-> 0]
    ELSE LET prev == SumBytes(key, modulus, n - 1, checks) IN
         IF prev.panic THEN prev
         ELSE LET s == AddByte(prev.sum, key[n], modulus) IN
              IF s < U8Mod THEN [panic |-> FALSE, sum |-> s]
              ELSE IF checks THEN [panic |-> TRUE, sum |-> prev.sum]
              ELSE [panic |-> FALSE, sum |-> s % U8Mod]

\* is_right_remainder as a function of its inputs and of the build:
\* "true", "false", or "panic" when the call does not return.
IsRightRemainder(key, modulus, remainder, checks) ==
    LET s == SumBytes(key, modulus, KeyLen, checks) IN
    IF s.panic THEN "panic"
    ELSE IF (s.sum % modulus) = remainder THEN "true" ELSE "false"

\* The predicate of the specification, in unbounded integers.
RECURSIVE ExactSum(_, _, _)
ExactSum(key, modulus, n) ==
    IF n = 0 THEN 0 ELSE ExactSum(key, modulus, n - 1) + (key[n] % modulus)

ShardInit ==
    /\ sh_key \in KeySamples
    /\ sh_modulus \in ModulusSamples
    /\ sh_remainder \in {0, 1, sh_modulus - 1}
    /\ sh_checks \in BOOLEAN
    /\ sh_i = 0
    /\ sh_sum = 0
    /\ sh_pc = "loop"
    /\ sh_ret = FALSE

ShardIdle ==
    /\ sh_key = [i \in 1..KeyLen |-> 0]
    /\ sh_modulus = 1
    /\ sh_remainder = 0
    /\ sh_checks = FALSE
    /\ sh_i = 0
    /\ sh_sum = 0
    /\ sh_pc = "idle"
    /\ sh_ret = FALSE

\* One iteration of `for byte in bytes { sum += byte % modulus; }` that fits.
ShardAdd ==
    /\ ShardFrame
    /\ sh_pc = "loop"
    /\ sh_i < KeyLen
    /\ AddByte(sh_sum, sh_key[sh_i + 1], sh_modulus) < U8Mod
    /\ sh_sum' = AddByte(sh_sum, sh_key[sh_i + 1], sh_modulus)
    /\ sh_i' = sh_i + 1
    /\ UNCHANGED <<sh_key, sh_modulus, sh_remainder, sh_checks, sh_pc, sh_ret>>

\* An iteration whose addition exceeds u8::MAX, in a build without overflow checks.
ShardAddWrap ==
    /\ ShardFrame
    /\ sh_pc = "loop"
    /\ sh_i < KeyLen
    /\ AddByte(sh_sum, sh_key[sh_i + 1], sh_modulus) >= U8Mod
    /\ ~sh_checks
    /\ sh_sum' = AddByte(sh_sum, sh_key[sh_i + 1], sh_modulus) % U8Mod
    /\ sh_i' = sh_i + 1
    /\ UNCHANGED <<sh_key, sh_modulus, sh_remainder, sh_checks, sh_pc, sh_ret>>

\* The same iteration in a build with overflow checks: the thread panics.
ShardAddPanic ==
    /\ ShardFrame
    /\ sh_pc = "loop"
    /\ sh_i < KeyLen
    /\ AddByte(sh_sum, sh_key[sh_i + 1], sh_modulus) >= U8Mod
    /\ sh_checks
    /\ sh_pc' = "panic"
    /\ UNCHANGED <<sh_key, sh_modulus, sh_remainder, sh_checks, sh_i, sh_sum, sh_ret>>

\* `sum % modulus == remainder`
ShardReturn ==
    /\ ShardFrame
    /\ sh_pc = "loop"
    /\ sh_i = KeyLen
    /\ sh_pc' = "done"
    /\ sh_ret' = ((sh_sum % sh_modulus) = sh_remainder)
    /\ UNCHANGED <<sh_key, sh_modulus, sh_remainder, sh_checks, sh_i, sh_sum>>

ShardNext == ShardAdd \/ ShardAddWrap \/ ShardAddPanic \/ ShardReturn

(***************************************************************************)
(* Integers of the program's widths                                        *)
(***************************************************************************)

\* A u64 is held as four 16-bit limbs, most significant first.
LimbBase == 65536

\* The u64 with the value x, for 0 <= x < 2^31.
NatU64(x) == <<0, 0, x \div LimbBase, x % LimbBase>>

\* `x as u64` for an i64 x: the two's complement 2^64 + x of a negative x.
AsU64(x) ==
    IF x >= 0 THEN NatU64(x)
    ELSE LET m == (-x) - 1 IN
         <<LimbBase - 1, LimbBase - 1,
           (LimbBase - 1) - (m \div LimbBase), (LimbBase - 1) - (m % LimbBase)>>

\* a < b for two u64.
RECURSIVE U64LessFrom(_, _, _)
U64LessFrom(a, b, i) ==
    IF i > Len(a) THEN FALSE
    ELSE IF a[i] # b[i] THEN a[i] < b[i]
    ELSE U64LessFrom(a, b, i + 1)

U64Less(a, b) == U64LessFrom(a, b, 1)

\* Rust's `/` on signed integers truncates toward zero.
TruncDiv(a, b) == IF a >= 0 THEN a \div b ELSE -((-a) \div b)

(***************************************************************************)
(* retry_send and liquidate_perp_position                                  *)
(***************************************************************************)

\* `reduction_max` of liquidate_perp_position.
ReductionMax == 5

\* The `retries` liquidate_perp_position passes to retry_send.
Retries == 5

\* The liquidator's leverage.
Leverage == 5

\* Largest liquidator account value the model draws.
MaxTav == 160

TavSamples == {-7, -1, 0, 9, MaxTav}

PriceSamples == {1, 2}

LotSamples == {1, 2}

OverExposureCodes == {6006, 6016, 6046}

NotLiquidatableCodes == {6007, 6012, 6011}

\* Custom program error codes retry_send does not name.
OtherCodes == {6000, 6053}

CodeSamples == OverExposureCodes \cup NotLiquidatableCodes \cup {6017, 6052} \cup OtherCodes

\* What request_builder.send() can return.  kind is the ClientErrorKind of a
\* SolanaClientError ("RpcError" carries the preflight custom code, 0 when
\* get_preflight_error_code finds none; "Other" is any kind but RpcError,
\* Reqwest and TransactionError); "NotSolana" is any other anchor ClientError.
SendOutcomes ==
    {[kind |-> "Ok", code |-> 0]}
    \cup {[kind |-> "RpcError", code |-> c] : c \in CodeSamples \cup {0}}
    \cup {[kind |-> k, code |-> 0] : k \in {"Reqwest", "TransactionError", "Other", "NotSolana"}}

NoOutcome == [kind |-> "none", code |-> 0]

NoWire == [lots |-> NatU64(0), round |-> -1]

\* Classify with an RPC error that carries no custom code taken as transient.
ClassifyNoCodeTransient(o) ==
    IF o.kind = "Ok" THEN "Ok"
    ELSE IF o.kind = "RpcError" THEN
        IF o.code \in OverExposureCodes THEN "OverExposure"
        ELSE IF o.code \in NotLiquidatableCodes \cup {6017, 6052} THEN "Unrecoverable"
        ELSE "continue"
    ELSE IF o.kind = "Other" THEN "Unrecoverable"
    ELSE "continue"

\* The match of retry_send on one send's result: what the loop does next.
Classify(o) ==
    IF o.kind = "Ok" THEN "Ok"
    ELSE IF o.kind = "RpcError" THEN
        IF o.code = 0 THEN "Unrecoverable"
        ELSE IF o.code \in OverExposureCodes THEN "OverExposure"
        ELSE IF o.code \in NotLiquidatableCodes THEN "Unrecoverable"
        ELSE IF o.code = 6017 THEN "Unrecoverable"
        ELSE IF o.code = 6052 THEN "Unrecoverable"
        ELSE "continue"
    ELSE IF o.kind \in {"Reqwest", "TransactionError"} THEN "continue"
    ELSE IF o.kind = "Other" THEN "Unrecoverable"
    ELSE "continue"

\* `last_error = Some(kind)` is reached only inside the SolanaClientError arm.
NextLastError(o, old) == IF o.kind = "NotSolana" THEN old ELSE o.kind

\* TAV / mark_price, to_num::<i64>() (floor), safe_div(coin_lot_size), safe_mul(5).
InitialLots(tav, price, lot) == TruncDiv(tav \div price, lot) * Leverage

\* `asset_transfer_lots /= 2`
Halve(lots) == TruncDiv(lots, 2)

\* `asset_transfer_lots as u64` in the instruction data.
EncodeLots(lots) == AsU64(lots)

PerpInit ==
    /\ pp_tav \in TavSamples
    /\ pp_price \in PriceSamples
    /\ pp_lot \in LotSamples
    /\ pp_lots = 0
    /\ pp_reduction = 0
    /\ pp_attempt = 0
    /\ pp_last_error = "none"
    /\ pp_last = NoOutcome
    /\ pp_rs = "none"
    /\ pp_nsent = 0
    /\ pp_wire = NoWire
    /\ pp_result = "none"
    /\ pp_pc = "calc"

PerpIdle ==
    /\ pp_tav = 0
    /\ pp_price = 1
    /\ pp_lot = 1
    /\ pp_lots = 0
    /\ pp_reduction = 0
    /\ pp_attempt = 0
    /\ pp_last_error = "none"
    /\ pp_last = NoOutcome
    /\ pp_rs = "none"
    /\ pp_nsent = 0
    /\ pp_wire = NoWire
    /\ pp_result = "none"
    /\ pp_pc = "idle"

\* The instructions are built: asset_transfer_lots gets its first value.
PerpBuild ==
    /\ PerpFrame
    /\ pp_pc = "calc"
    /\ pp_lots' = InitialLots(pp_tav, pp_price, pp_lot)
    /\ pp_reduction' = 0
    /\ pp_pc' = "call"
    /\ UNCHANGED <<pp_tav, pp_price, pp_lot, pp_attempt, pp_last_error, pp_last, pp_rs,
                   pp_nsent, pp_wire, pp_result>>

\* `for _reduction in 0..reduction_max`: the next retry_send is called.
PerpCallRetrySend ==
    /\ PerpFrame
    /\ pp_pc = "call"
    /\ pp_reduction < ReductionMax
    /\ pp_attempt' = 0
    /\ pp_last_error' = "none"
    /\ pp_last' = NoOutcome
    /\ pp_rs' = "none"
    /\ pp_pc' = "retry"
    /\ UNCHANGED <<pp_tav, pp_price, pp_lot, pp_lots, pp_reduction, pp_nsent, pp_wire,
                   pp_result>>

\* The halving loop ran out: `Err(ErrorCode::LiquidationFailure)`.
PerpLoopExhausted ==
    /\ PerpFrame
    /\ pp_pc = "call"
    /\ pp_reduction >= ReductionMax
    /\ pp_result' = "LiquidationFailure"
    /\ pp_pc' = "done"
    /\ UNCHANGED <<pp_tav, pp_price, pp_lot, pp_lots, pp_reduction, pp_attempt,
                   pp_last_error, pp_last, pp_rs, pp_nsent, pp_wire>>

\* One iteration of retry_send: the request is built and sent, and the
\* result is matched.
RetrySendAttempt ==
    /\ PerpFrame
    /\ pp_pc = "retry"
    /\ pp_attempt < Retries
    /\ \E o \in SendOutcomes :
         /\ pp_last' = o
         /\ pp_nsent' = pp_nsent + 1
         /\ pp_wire' = [lots |-> EncodeLots(pp_lots), round |-> pp_reduction]
         /\ IF Classify(o) = "continue"
            THEN /\ pp_attempt' = pp_attempt + 1
                 /\ pp_last_error' = NextLastError(o, pp_last_error)
                 /\ UNCHANGED <<pp_rs, pp_pc>>
            ELSE /\ pp_rs' = Classify(o)
                 /\ pp_pc' = "ret"
                 /\ UNCHANGED <<pp_attempt, pp_last_error>>
    /\ UNCHANGED <<pp_tav, pp_price, pp_lot, pp_lots, pp_reduction, pp_result>>

\* retry_send's loop ran out: `Err(ErrorCode::TimeoutExceeded)`.
RetrySendExhausted ==
    /\ PerpFrame
    /\ pp_pc = "retry"
    /\ pp_attempt >= Retries
    /\ pp_rs' = "TimeoutExceeded"
    /\ pp_pc' = "ret"
    /\ UNCHANGED <<pp_tav, pp_price, pp_lot, pp_lots, pp_reduction, pp_attempt,
                   pp_last_error, pp_last, pp_nsent, pp_wire, pp_result>>

\* `match signature` in liquidate_perp_position.
PerpMatchOk ==
    /\ PerpFrame
    /\ pp_pc = "ret"
    /\ pp_rs = "Ok"
    /\ pp_result' = "Ok"
    /\ pp_pc' = "done"
    /\ UNCHANGED <<pp_tav, pp_price, pp_lot, pp_lots, pp_reduction, pp_attempt,
                   pp_last_error, pp_last, pp_rs, pp_nsent, pp_wire>>

PerpMatchOverExposure ==
    /\ PerpFrame
    /\ pp_pc = "ret"
    /\ pp_rs = "OverExposure"
    /\ pp_lots' = Halve(pp_lots)
    /\ pp_reduction' = pp_reduction + 1
    /\ pp_pc' = "call"
    /\ UNCHANGED <<pp_tav, pp_price, pp_lot, pp_attempt, pp_last_error, pp_last, pp_rs,
                   pp_nsent, pp_wire, pp_result>>

PerpMatchOtherError ==
    /\ PerpFrame
    /\ pp_pc = "ret"
    /\ pp_rs \notin {"Ok", "OverExposure"}
    /\ pp_result' = "LiquidationFailure"
    /\ pp_pc' = "done"
    /\ UNCHANGED <<pp_tav, pp_price, pp_lot, pp_lots, pp_reduction, pp_attempt,
                   pp_last_error, pp_last, pp_rs, pp_nsent, pp_wire>>

PerpNext ==
    \/ PerpBuild
    \/ PerpCallRetrySend
    \/ PerpLoopExhausted
    \/ RetrySendAttempt
    \/ RetrySendExhausted
    \/ PerpMatchOk
    \/ PerpMatchOverExposure
    \/ PerpMatchOtherError

(***************************************************************************)
(* The event-queue consumer                                                *)
(***************************************************************************)

\* Capacity of the event queue's ring buffer: a valid head is below it.
QueueCap == 2

\* The clock stops here.
MaxTime == 3

\* Dispatch threads that may be running at once in the model.
MaxInFlight == 2

\* `as u16` keeps the low 16 bits.
U16Mod == 65536

\* `1u64 << 48`, the first value of last_head.
Sentinel == <<1, 0, 0, 0>>

\* The names of the control accounts of the model.
Controls == {"A", "B"}

\* The 32 bytes of a control's Pubkey.  As [u64; 4] (little-endian words)
\* A < B, while byte by byte B < A.
Pubkey(c) ==
    [i \in 1..KeyLen |->
        IF c = "A" THEN (IF i = 1 THEN 2 ELSE 0)
        ELSE (IF i = 1 THEN 1 ELSE IF i = 8 THEN 1 ELSE 0)]

\* bytemuck::cast::<Pubkey, [u64; 4]>: word w is the bytes 8w-7..8w, least
\* significant first.  Each word is given by its bytes, most significant first.
CastToU64x4(key) == [w \in 1..4 |-> [j \in 1..8 |-> key[8 * w + 1 - j]]]

\* bytemuck::cast::<[u64; 4], Pubkey>
CastToPubkey(words) == [i \in 1..KeyLen |-> words[((i - 1) \div 8) + 1][8 - ((i - 1) % 8)]]

\* The order of [u64; 4] in the BTreeSet: lexicographic over the words.
RECURSIVE WordsLessFrom(_, _, _)
WordsLessFrom(a, b, k) ==
    IF k > 32 THEN FALSE
    ELSE LET w == ((k - 1) \div 8) + 1
             j == ((k - 1) % 8) + 1 IN
         IF a[w][j] # b[w][j] THEN a[w][j] < b[w][j]
         ELSE WordsLessFrom(a, b, k + 1)

WordsLess(a, b) == WordsLessFrom(a, b, 1)

\* The loop that fills used_control: insert, then stop once the set has
\* to_consume elements.
RECURSIVE UsedControl(_, _, _, _)
UsedControl(events, i, used, to_consume) ==
    IF i > Len(events) THEN used
    ELSE LET next == used \cup {CastToU64x4(Pubkey(events[i]))} IN
         IF Cardinality(next) >= to_consume THEN next
         ELSE UsedControl(events, i + 1, next, to_consume)

\* used_control.into_iter(): ascending.
RECURSIVE Ascending(_)
Ascending(set) ==
    IF set = {} THEN <<>>
    ELSE LET least == CHOOSE x \in set : \A y \in set \ {x} : WordsLess(x, y) IN
         <<least>> \o Ascending(set \ {least})

\* control_accounts: the sorted words cast back to Pubkeys.
ControlAccounts(events, to_consume) ==
    LET sorted == Ascending(UsedControl(events, 1, {}, to_consume)) IN
    [k \in 1..Len(sorted) |-> CastToPubkey(sorted[k])]

\* `cfg.to_consume as u16`
Limit(to_consume) == to_consume % U16Mod

\* last_cranked_at.elapsed()
Elapsed == cs_now - cs_last_cranked_at

\* A tick that keeps the head it remembered instead of the one it read.
ObservedHeadStale == cs_last_head

\* events_header.head as the u64 it is.
ObservedHead == NatU64(cs_queue.head)

\* The controls of a key list that accounts_table does not hold yet.
Uncached(keys) == { c \in Controls : (\E k \in 1..Len(keys) : keys[k] = Pubkey(c)) } \ cs_accounts_table

ToConsumeSamples == {0, 1, 2, U16Mod + 1}

MaxWaitSamples == {2}

MaxQueueLengthSamples == {1, 2}

ConsumerInit ==
    /\ cs_cfg \in [to_consume : ToConsumeSamples, max_wait : MaxWaitSamples,
                    max_queue_length : MaxQueueLengthSamples]
    /\ cs_now = 0
    /\ cs_last_cranked_at = cs_now - cs_cfg.max_wait
    /\ cs_last_head = Sentinel
    /\ cs_accounts_table = {}
    /\ cs_queue = [head |-> 0, events |-> <<>>]
    /\ cs_threads = <<>>
    /\ cs_log = "start"
    /\ cs_pc = "sleep"

ConsumerIdle ==
    /\ cs_cfg = [to_consume |-> 1, max_wait |-> 1, max_queue_length |-> 1]
    /\ cs_now = 0
    /\ cs_last_cranked_at = 0
    /\ cs_last_head = Sentinel
    /\ cs_accounts_table = {}
    /\ cs_queue = [head |-> 0, events |-> <<>>]
    /\ cs_threads = <<>>
    /\ cs_log = "idle"
    /\ cs_pc = "idle"

\* The matching engine appends an event for control c.
EnginePush ==
    /\ ConsumerFrame
    /\ cs_pc \in {"sleep", "tick"}
    /\ Len(cs_queue.events) < QueueCap
    /\ \E c \in Controls : cs_queue' = [cs_queue EXCEPT !.events = Append(@, c)]
    /\ UNCHANGED <<cs_cfg, cs_now, cs_last_cranked_at, cs_last_head, cs_accounts_table,
                   cs_threads, cs_log, cs_pc>>

\* std::thread::sleep(250 ms), and whatever else the clock moved meanwhile.
ConsumerSleep ==
    /\ ConsumerFrame
    /\ cs_pc = "sleep"
    /\ Len(cs_threads) < MaxInFlight
    /\ \E d \in 1..2 :
         /\ cs_now + d <= MaxTime
         /\ cs_now' = cs_now + d
    /\ cs_pc' = "tick"
    /\ cs_log' = "running"
    /\ UNCHANGED <<cs_cfg, cs_last_cranked_at, cs_last_head, cs_accounts_table, cs_queue,
                   cs_threads>>

\* get_account_with_commitment fails: warn and return.
ConsumeFetchFail ==
    /\ ConsumerFrame
    /\ cs_pc = "tick"
    /\ cs_log' = "fetch_err"
    /\ cs_pc' = "sleep"
    /\ UNCHANGED <<cs_cfg, cs_now, cs_last_cranked_at, cs_last_head, cs_accounts_table,
                   cs_queue, cs_threads>>

\* The account is missing or does not decode: res.value.unwrap() or
\* deserialize_queue(..).unwrap() panics.
ConsumePanicDecode ==
    /\ ConsumerFrame
    /\ cs_pc = "tick"
    /\ cs_log' = "panic"
    /\ cs_pc' = "panicked"
    /\ UNCHANGED <<cs_cfg, cs_now, cs_last_cranked_at, cs_last_head, cs_accounts_table,
                   cs_queue, cs_threads>>

\* `if events.is_empty() { return; }`
ConsumeSkipEmpty ==
    /\ ConsumerFrame
    /\ cs_pc = "tick"
    /\ cs_queue.events = <<>>
    /\ cs_log' = "skip_empty"
    /\ cs_pc' = "sleep"
    /\ UNCHANGED <<cs_cfg, cs_now, cs_last_cranked_at, cs_last_head, cs_accounts_table,
                   cs_queue, cs_threads>>

\* elapsed < max_wait and the head is still last_head.
ConsumeSkipHead ==
    /\ ConsumerFrame
    /\ cs_pc = "tick"
    /\ cs_queue.events # <<>>
    /\ Elapsed < cs_cfg.max_wait
    /\ ObservedHead = cs_last_head
    /\ cs_log' = "skip_head"
    /\ cs_pc' = "sleep"
    /\ UNCHANGED <<cs_cfg, cs_now, cs_last_cranked_at, cs_last_head, cs_accounts_table,
                   cs_queue, cs_threads>>

\* elapsed < max_wait and fewer than max_queue_length events.
ConsumeSkipShort ==
    /\ ConsumerFrame
    /\ cs_pc = "tick"
    /\ cs_queue.events # <<>>
    /\ Elapsed < cs_cfg.max_wait
    /\ ObservedHead # cs_last_head
    /\ Len(cs_queue.events) < cs_cfg.max_queue_length
    /\ cs_log' = "skip_short"
    /\ cs_pc' = "sleep"
    /\ UNCHANGED <<cs_cfg, cs_now, cs_last_cranked_at, cs_last_head, cs_accounts_table,
                   cs_queue, cs_threads>>

\* Guards that let a changed head through whatever the number of events.
PassesGuardsIgnoringLength ==
    /\ cs_queue.events # <<>>
    /\ \/ Elapsed >= cs_cfg.max_wait
       \/ ObservedHead # cs_last_head

\* The guards of lines 97-120 let the tick through.
PassesGuards ==
    /\ cs_queue.events # <<>>
    /\ \/ Elapsed >= cs_cfg.max_wait
       \/ /\ ObservedHead # cs_last_head
          /\ Len(cs_queue.events) >= cs_cfg.max_queue_length

\* The account lists are built, the thread is spawned, and last_head and
\* last_cranked_at are set.
ConsumeDispatch ==
    /\ ConsumerFrame
    /\ cs_pc = "tick"
    /\ PassesGuards
    /\ LET controls == ControlAccounts(cs_queue.events, cs_cfg.to_consume) IN
         /\ cs_accounts_table' = cs_accounts_table \cup Uncached(controls)
         /\ cs_threads' = Append(cs_threads,
                [controls |-> controls, limit |-> Limit(cs_cfg.to_consume),
                 stage |-> "consume_events", consumed |-> "pending"])
    /\ cs_last_head' = ObservedHead
    /\ cs_last_cranked_at' = cs_now
    /\ cs_log' = "dispatch"
    /\ cs_pc' = "sleep"
    /\ UNCHANGED <<cs_cfg, cs_now, cs_queue>>

\* A control is not cached yet and st.program().account(control) fails:
\* the unwrap panics before anything is spawned.
ConsumePanicControl ==
    /\ ConsumerFrame
    /\ cs_pc = "tick"
    /\ PassesGuards
    /\ Uncached(ControlAccounts(cs_queue.events, cs_cfg.to_consume)) # {}
    /\ cs_log' = "panic"
    /\ cs_pc' = "panicked"
    /\ UNCHANGED <<cs_cfg, cs_now, cs_last_cranked_at, cs_last_head, cs_accounts_table,
                   cs_queue, cs_threads>>

\* The events the program consumes when a consume_events transaction lands.
Pop(q, k) ==
    [head |-> (q.head + k) % QueueCap, events |-> SubSeq(q.events, k + 1, Len(q.events))]

Least(a, b) == IF a <= b THEN a ELSE b

\* A thread's consume_events transaction lands: the program consumes up
\* to `limit` events.
ThreadConsumeOk ==
    /\ ConsumerFrame
    /\ cs_pc \in {"sleep", "tick"}
    /\ \E i \in 1..Len(cs_threads) :
         /\ cs_threads[i].stage = "consume_events"
         /\ \E k \in 0..Least(cs_threads[i].limit, Len(cs_queue.events)) :
              cs_queue' = Pop(cs_queue, k)
         /\ cs_threads' = [cs_threads EXCEPT ![i].stage = "crank_pnl_1", ![i].consumed = "ok"]
    /\ UNCHANGED <<cs_cfg, cs_now, cs_last_cranked_at, cs_last_head, cs_accounts_table,
                   cs_log, cs_pc>>

\* A failed consume_events that puts last_head and last_cranked_at back to
\* their first values, so that the next tick dispatches again.
ThreadConsumeErrRollsBack ==
    /\ ConsumerFrame
    /\ cs_pc \in {"sleep", "tick"}
    /\ \E i \in 1..Len(cs_threads) :
         /\ cs_threads[i].stage = "consume_events"
         /\ cs_threads' = [cs_threads EXCEPT ![i].stage = "crank_pnl_1", ![i].consumed = "err"]
    /\ cs_last_head' = Sentinel
    /\ cs_last_cranked_at' = cs_now - cs_cfg.max_wait
    /\ UNCHANGED <<cs_cfg, cs_now, cs_accounts_table, cs_queue, cs_log, cs_pc>>

\* A thread's consume_events transaction fails: warn, and go on to crank_pnl.
ThreadConsumeErr ==
    /\ ConsumerFrame
    /\ cs_pc \in {"sleep", "tick"}
    /\ \E i \in 1..Len(cs_threads) :
         /\ cs_threads[i].stage = "consume_events"
         /\ cs_threads' = [cs_threads EXCEPT ![i].stage = "crank_pnl_1", ![i].consumed = "err"]
    /\ UNCHANGED <<cs_cfg, cs_now, cs_last_cranked_at, cs_last_head, cs_accounts_table,
                   cs_queue, cs_log, cs_pc>>

\* crank_pnl on the first half of the lists (its result is only logged).
ThreadCrankPnlFirst ==
    /\ ConsumerFrame
    /\ cs_pc \in {"sleep", "tick"}
    /\ \E i \in 1..Len(cs_threads) :
         /\ cs_threads[i].stage = "crank_pnl_1"
         /\ cs_threads' = [cs_threads EXCEPT ![i].stage = "crank_pnl_2"]
    /\ UNCHANGED <<cs_cfg, cs_now, cs_last_cranked_at, cs_last_head, cs_accounts_table,
                   cs_queue, cs_log, cs_pc>>

\* crank_pnl on the second half; the thread ends.
ThreadCrankPnlSecond ==
    /\ ConsumerFrame
    /\ cs_pc \in {"sleep", "tick"}
    /\ \E i \in 1..Len(cs_threads) :
         /\ cs_threads[i].stage = "crank_pnl_2"
         /\ cs_threads' = [j \in 1..(Len(cs_threads) - 1) |->
                              IF j < i THEN cs_threads[j] ELSE cs_threads[j + 1]]
    /\ UNCHANGED <<cs_cfg, cs_now, cs_last_cranked_at, cs_last_head, cs_accounts_table,
                   cs_queue, cs_log, cs_pc>>

ConsumerNext ==
    \/ EnginePush
    \/ ConsumerSleep
    \/ ConsumeFetchFail
    \/ ConsumePanicDecode
    \/ ConsumeSkipEmpty
    \/ ConsumeSkipHead
    \/ ConsumeSkipShort
    \/ ConsumeDispatch
    \/ ConsumePanicControl
    \/ ThreadConsumeOk
    \/ ThreadConsumeErr
    \/ ThreadCrankPnlFirst
    \/ ThreadCrankPnlSecond

(***************************************************************************)
(* The evaluation pass: check_all_accounts, is_liquidatable, cancel         *)
(***************************************************************************)

\* Perp markets of the model (the slots of open_orders_agg and cache.marks).
NMarkets == 2

Markets == 1..NMarkets

\* The keys of margin_table.
MarginKeys == {"m1", "m2"}

\* What check_fraction_requirement returns: Ok(true) (satisfied),
\* Ok(false) (not satisfied) or Err.
CheckResults == {"true", "false", "err"}

\* A Margin, by what the two checks return on it.
MarginSamples == [cancel : CheckResults, maint : CheckResults]

NoOrders == [coin_on_bids |-> 0, coin_on_asks |-> 0]

OrderSamples == {[coin_on_bids |-> 1, coin_on_asks |-> 0], [coin_on_bids |-> 0, coin_on_asks |-> 3]}

\* open_orders_agg of a Control: no orders, orders in one market, or the
\* same bid in every market.
ControlSamples ==
    {[m \in Markets |-> NoOrders]}
    \cup {[m \in Markets |-> IF m = k THEN o ELSE NoOrders] : k \in Markets, o \in OrderSamples}
    \cup {[m \in Markets |-> [coin_on_bids |-> 1, coin_on_asks |-> 0]]}

MarkSamples == {0, 2}

Larger(a, b) == IF a >= b THEN a ELSE b

\* order.coin_on_asks.max(order.coin_on_bids) * mark.price
OrderValue(marks, control, m) ==
    Larger(control[m].coin_on_asks, control[m].coin_on_bids) * marks[m]

\* A largest_open_order that names the first market whatever the orders are.
LargestOpenOrderAlwaysSome(marks, control) == 1

\* largest_open_order: the market of the largest order value (max_by_key
\* keeps the last of equal maxima), or 0 for None when that value is zero.
LargestOpenOrder(marks, control) ==
    LET best == CHOOSE m \in Markets :
                   \A j \in Markets :
                       \/ OrderValue(marks, control, j) < OrderValue(marks, control, m)
                       \/ OrderValue(marks, control, j) = OrderValue(marks, control, m) /\ j <= m
    IN IF OrderValue(marks, control, best) = 0 THEN 0 ELSE best

HasOpenOrders(marks, control) == LargestOpenOrder(marks, control) # 0

\* An is_liquidatable that liquidates whenever Maintenance is not satisfied.
IsLiquidatableIgnoringOrders(margin, marks, control) ==
    [cancel_orders |-> margin.cancel = "false", liquidate |-> margin.maint = "false"]

\* The pair is_liquidatable returns when at least one check returned Ok.
IsLiquidatable(margin, marks, control) ==
    LET has_oo == HasOpenOrders(marks, control) IN
    [cancel_orders |-> margin.cancel = "false",
     liquidate |-> margin.maint = "false" /\ ~has_oo]

NoEval ==
    [key |-> "none", margin |-> [cancel |-> "true", maint |-> "true"],
     control |-> [m \in Markets |-> NoOrders], cancel_orders |-> FALSE, liquidate |-> FALSE]

LiqInit ==
    /\ lq_marks \in [Markets -> MarkSamples]
    /\ lq_payer_loaded \in BOOLEAN
    /\ lq_todo = MarginKeys
    /\ lq_eval = NoEval
    /\ lq_handles = <<>>
    /\ lq_sent = {}
    /\ lq_lock = FALSE
    /\ lq_result = "none"
    /\ lq_pc = "start"

LiqIdle ==
    /\ lq_marks = [m \in Markets |-> 0]
    /\ lq_payer_loaded = TRUE
    /\ lq_todo = {}
    /\ lq_eval = NoEval
    /\ lq_handles = <<>>
    /\ lq_sent = {}
    /\ lq_lock = FALSE
    /\ lq_result = "none"
    /\ lq_pc = "idle"

\* check_all_accounts takes the lock and clones margin_table.
LiqPassStart ==
    /\ LiqFrame
    /\ lq_pc = "start"
    /\ lq_lock' = TRUE
    /\ lq_pc' = "iter"
    /\ UNCHANGED <<lq_marks, lq_payer_loaded, lq_todo, lq_eval, lq_handles, lq_sent, lq_result>>

\* The next Margin's Control is not in control_table: is_liquidatable
\* returns Err(InexistentControl) and `?` ends the pass.
LiqEvalNoControl ==
    /\ LiqFrame
    /\ lq_pc = "iter"
    /\ \E key \in lq_todo, margin \in MarginSamples :
         /\ lq_todo' = lq_todo \ {key}
         /\ lq_eval' = [NoEval EXCEPT !.key = key, !.margin = margin]
    /\ lq_result' = "InexistentControl"
    /\ lq_lock' = FALSE
    /\ lq_pc' = "done"
    /\ UNCHANGED <<lq_marks, lq_payer_loaded, lq_handles, lq_sent>>

\* Both checks return Err: is_liquidatable returns Err(LiquidationFailure)
\* and `?` ends the pass.
LiqEvalBothErr ==
    /\ LiqFrame
    /\ lq_pc = "iter"
    /\ \E key \in lq_todo, control \in ControlSamples :
         /\ lq_todo' = lq_todo \ {key}
         /\ lq_eval' = [NoEval EXCEPT !.key = key, !.margin = [cancel |-> "err", maint |-> "err"],
                                      !.control = control]
    /\ lq_result' = "LiquidationFailure"
    /\ lq_lock' = FALSE
    /\ lq_pc' = "done"
    /\ UNCHANGED <<lq_marks, lq_payer_loaded, lq_handles, lq_sent>>

\* is_liquidatable returns Ok((cancel_orders, liquidate)) for the next Margin.
LiqEvalOk ==
    /\ LiqFrame
    /\ lq_pc = "iter"
    /\ \E key \in lq_todo, margin \in MarginSamples, control \in ControlSamples :
         /\ ~(margin.cancel = "err" /\ margin.maint = "err")
         /\ lq_todo' = lq_todo \ {key}
         /\ LET r == IsLiquidatable(margin, lq_marks, control) IN
            lq_eval' = [key |-> key, margin |-> margin, control |-> control,
                        cancel_orders |-> r.cancel_orders, liquidate |-> r.liquidate]
    /\ lq_pc' = "decide"
    /\ UNCHANGED <<lq_marks, lq_payer_loaded, lq_handles, lq_sent, lq_lock, lq_result>>

Handle(kind) ==
    [key |-> lq_eval.key, margin |-> lq_eval.margin, control |-> lq_eval.control,
     kind |-> kind, state |-> "running"]

\* `if liquidate`: the task running liquidation::liquidate is spawned.
LiqSpawnLiquidate ==
    /\ LiqFrame
    /\ lq_pc = "decide"
    /\ lq_eval.liquidate
    /\ lq_payer_loaded
    /\ lq_handles' = Append(lq_handles, Handle("liquidate"))
    /\ lq_pc' = "iter"
    /\ UNCHANGED <<lq_marks, lq_payer_loaded, lq_todo, lq_eval, lq_sent, lq_lock, lq_result>>

\* `if liquidate`, and the liquidator's own Margin or Control is not in the
\* table: the unwrap panics, and the unwinding drops the lock guard.
LiqPanicPayer ==
    /\ LiqFrame
    /\ lq_pc = "decide"
    /\ lq_eval.liquidate
    /\ ~lq_payer_loaded
    /\ lq_lock' = FALSE
    /\ lq_result' = "panic"
    /\ lq_pc' = "panicked"
    /\ UNCHANGED <<lq_marks, lq_payer_loaded, lq_todo, lq_eval, lq_handles, lq_sent>>

\* `else if cancel_orders`: the task running liquidation::cancel is spawned.
LiqSpawnCancel ==
    /\ LiqFrame
    /\ lq_pc = "decide"
    /\ ~lq_eval.liquidate
    /\ lq_eval.cancel_orders
    /\ lq_handles' = Append(lq_handles, Handle("cancel"))
    /\ lq_pc' = "iter"
    /\ UNCHANGED <<lq_marks, lq_payer_loaded, lq_todo, lq_eval, lq_sent, lq_lock, lq_result>>

\* Neither flag: nothing is spawned for this Margin.
LiqSkip ==
    /\ LiqFrame
    /\ lq_pc = "decide"
    /\ ~lq_eval.liquidate
    /\ ~lq_eval.cancel_orders
    /\ lq_pc' = "iter"
    /\ UNCHANGED <<lq_marks, lq_payer_loaded, lq_todo, lq_eval, lq_handles, lq_sent, lq_lock,
                   lq_result>>

\* block_on(join_all(handles)) returns: a panicked task makes the pass
\* return Err(LiquidationFailure), otherwise it returns Ok(size).
LiqJoin ==
    /\ LiqFrame
    /\ lq_pc = "iter"
    /\ lq_todo = {}
    /\ \A i \in 1..Len(lq_handles) : lq_handles[i].state # "running"
    /\ lq_result' = IF \E i \in 1..Len(lq_handles) : lq_handles[i].state = "panicked"
                    THEN "LiquidationFailure" ELSE "Ok"
    /\ lq_lock' = FALSE
    /\ lq_pc' = "done"
    /\ UNCHANGED <<lq_marks, lq_payer_loaded, lq_todo, lq_eval, lq_handles, lq_sent>>

\* A liquidate task ends: Ok, an error (logged), or a panic.
TaskLiquidate ==
    /\ LiqFrame
    /\ \E i \in 1..Len(lq_handles), how \in {"ok", "err", "panicked"} :
         /\ lq_handles[i].kind = "liquidate"
         /\ lq_handles[i].state = "running"
         /\ lq_handles' = [lq_handles EXCEPT ![i].state = how]
    /\ UNCHANGED <<lq_marks, lq_payer_loaded, lq_todo, lq_eval, lq_sent, lq_lock, lq_result,
                   lq_pc>>

\* cancel: largest_open_order is None, "No open orders to cancel", Ok(()).
TaskCancelNoOrders ==
    /\ LiqFrame
    /\ \E i \in 1..Len(lq_handles) :
         /\ lq_handles[i].kind = "cancel"
         /\ lq_handles[i].state = "running"
         /\ LargestOpenOrder(lq_marks, lq_handles[i].control) = 0
         /\ lq_handles' = [lq_handles EXCEPT ![i].state = "ok"]
    /\ UNCHANGED <<lq_marks, lq_payer_loaded, lq_todo, lq_eval, lq_sent, lq_lock, lq_result,
                   lq_pc>>

\* cancel: cancel_orders sends force_cancel_all_perp_orders for the market
\* of the largest open order; retry_send's result becomes Ok or CancelFailure.
TaskCancelSend ==
    /\ LiqFrame
    /\ \E i \in 1..Len(lq_handles), how \in {"ok", "err"} :
         /\ lq_handles[i].kind = "cancel"
         /\ lq_handles[i].state = "running"
         /\ LargestOpenOrder(lq_marks, lq_handles[i].control) # 0
         /\ lq_sent' = lq_sent \cup
                {[key |-> lq_handles[i].key, margin |-> lq_handles[i].margin,
                  control |-> lq_handles[i].control,
                  market |-> LargestOpenOrder(lq_marks, lq_handles[i].control)]}
         /\ lq_handles' = [lq_handles EXCEPT ![i].state = how]
    /\ UNCHANGED <<lq_marks, lq_payer_loaded, lq_todo, lq_eval, lq_lock, lq_result, lq_pc>>

LiqNext ==
    \/ LiqPassStart
    \/ LiqEvalNoControl
    \/ LiqEvalBothErr
    \/ LiqEvalOk
    \/ LiqSpawnLiquidate
    \/ LiqPanicPayer
    \/ LiqSpawnCancel
    \/ LiqSkip
    \/ LiqJoin
    \/ TaskLiquidate
    \/ TaskCancelNoOrders
    \/ TaskCancelSend

(***************************************************************************)
(* The recorder's store: db.rs insert                                       *)
(***************************************************************************)

\* Values of the unique-index key of the model.
MaxKey == 2

\* Longest batch of the model.
MaxBatch == 2

\* The duplicate-key error code.
DuplicateKey == 11000

\* A write error code of another kind (document validation failure).
OtherWriteError == 121

DocKeys == 1..MaxKey

\* A document: its unique-index key and the rest of its fields.
Docs == [key : DocKeys, tag : {"old", "new"}]

KeysOf(coll) == { d.key : d \in coll }

\* The collections and batches of the model.
CollSamples == { [key : ks, tag : {"old"}] : ks \in SUBSET DocKeys }

BatchSamples ==
    UNION { [1..n -> [key : DocKeys, tag : {"new"}]] : n \in 0..MaxBatch }

\* How the server answers: "normal"; "write_error", the first document is
\* rejected with a code other than 11000; "write_concern", the writes are
\* applied and a write concern error is reported; "network", the request
\* fails outside the bulk write; "index", create_indexes fails.
Replies == {"normal", "write_error", "write_concern", "network", "index"}

\* An ordered insert_many: the documents after the first error are not tried.
RECURSIVE StoreOrdered(_, _, _, _)
StoreOrdered(coll, xs, i, reject) ==
    IF i > Len(xs) THEN [coll |-> coll, errors |-> <<>>]
    ELSE IF i \in reject THEN [coll |-> coll, errors |-> <<OtherWriteError>>]
    ELSE IF xs[i].key \in KeysOf(coll) THEN [coll |-> coll, errors |-> <<DuplicateKey>>]
    ELSE StoreOrdered(coll \cup {xs[i]}, xs, i + 1, reject)

\* insert_many with ordered(false) on a collection with the unique index:
\* every document is tried; one whose key is there already gets a write
\* error 11000, one in `reject` a write error of another code, the others
\* are stored.
RECURSIVE StoreUnordered(_, _, _, _)
StoreUnordered(coll, xs, i, reject) ==
    IF i > Len(xs) THEN [coll |-> coll, errors |-> <<>>]
    ELSE IF i \in reject THEN
        LET rest == StoreUnordered(coll, xs, i + 1, reject) IN
        [coll |-> rest.coll, errors |-> <<OtherWriteError>> \o rest.errors]
    ELSE IF xs[i].key \in KeysOf(coll) THEN
        LET rest == StoreUnordered(coll, xs, i + 1, reject) IN
        [coll |-> rest.coll, errors |-> <<DuplicateKey>> \o rest.errors]
    ELSE StoreUnordered(coll \cup {xs[i]}, xs, i + 1, reject)

\* The result of insert_many as the driver reports it: "Ok", or a bulk
\* write failure with write_errors Some(es) ("BulkWrite") or None
\* ("BulkWriteNone"), or another kind of error ("Other").
InsertMany(coll, xs, reply) ==
    IF reply = "network" THEN [coll |-> coll, kind |-> "Other", errors |-> <<>>]
    ELSE LET r == StoreUnordered(coll, xs, 1, IF reply = "write_error" THEN {1} ELSE {}) IN
         [coll |-> r.coll,
          kind |-> IF r.errors # <<>> THEN "BulkWrite"
                   ELSE IF reply = "write_concern" THEN "BulkWriteNone"
                   ELSE "Ok",
          errors |-> r.errors]

\* A match that takes every result of insert_many for a success.
InsertAlwaysOk(res) == "Ok"

\* The match on the result of insert_many.
InsertResult(res) ==
    IF res.kind = "Ok" THEN "Ok"
    ELSE IF res.kind = "BulkWrite" /\ \A k \in 1..Len(res.errors) : res.errors[k] = DuplicateKey
         THEN "Ok"
    ELSE "Err"

\* An insert into a collection without the unique index: every document
\* of the batch is stored.
InsertNoIndex(coll, xs, reply) ==
    [coll |-> coll \cup { xs[i] : i \in 1..Len(xs) }, ret |-> "Ok",
     calls |-> <<"insert_many">>]

\* db.rs insert as a function: the collection afterwards, the result and
\* the requests made.
Insert(coll, xs, reply) ==
    IF xs = <<>> THEN [coll |-> coll, ret |-> "Ok", calls |-> <<>>]
    ELSE IF reply = "index" THEN [coll |-> coll, ret |-> "Err", calls |-> <<"create_indexes">>]
    ELSE LET res == InsertMany(coll, xs, reply) IN
         [coll |-> res.coll, ret |-> InsertResult(res),
          calls |-> <<"create_indexes", "insert_many">>]

InsertInit ==
    /\ in_coll0 \in CollSamples
    /\ in_coll = in_coll0
    /\ in_xs \in BatchSamples
    /\ in_reply \in Replies
    /\ in_calls = <<>>
    /\ in_ret = "none"
    /\ in_pc = "call"

InsertIdle ==
    /\ in_coll0 = {}
    /\ in_coll = {}
    /\ in_xs = <<>>
    /\ in_reply = "normal"
    /\ in_calls = <<>>
    /\ in_ret = "none"
    /\ in_pc = "idle"

\* `if xs.is_empty() { return Ok(()) }`
InsertSkipEmpty ==
    /\ InsertFrame
    /\ in_pc = "call"
    /\ in_xs = <<>>
    /\ in_ret' = "Ok"
    /\ in_pc' = "done"
    /\ UNCHANGED <<in_coll0, in_coll, in_xs, in_reply, in_calls>>

\* create_indexes fails and `?` returns the error.
InsertIndexesFail ==
    /\ InsertFrame
    /\ in_pc = "call"
    /\ in_xs # <<>>
    /\ in_reply = "index"
    /\ in_calls' = <<"create_indexes">>
    /\ in_ret' = "Err"
    /\ in_pc' = "done"
    /\ UNCHANGED <<in_coll0, in_coll, in_xs, in_reply>>

\* create_indexes, insert_many and the match on its result.
InsertBatch ==
    /\ InsertFrame
    /\ in_pc = "call"
    /\ in_xs # <<>>
    /\ in_reply # "index"
    /\ LET r == Insert(in_coll, in_xs, in_reply) IN
         /\ in_coll' = r.coll
         /\ in_ret' = r.ret
         /\ in_calls' = r.calls
    /\ in_pc' = "done"
    /\ UNCHANGED <<in_coll0, in_xs, in_reply>>

InsertNext ==
    \/ InsertSkipEmpty
    \/ InsertIndexesFail
    \/ InsertBatch

(***************************************************************************)
(* The recorder: listen_event_queue and Trade::update                       *)
(***************************************************************************)

\* Largest sequence number of the model.
MaxSeq == 2

\* Trade::update tasks of the model.
MaxTasks == 2

\* The event-queue buffers: `seq` is the buffer's latest sequence number,
\* and the buffer holds the events 1..seq.
Buffers == [seq : 0..MaxSeq]

\* The sequence numbers of the fills in a buffer.
BufFills(buf) == { q \in tr_fills : q <= buf.seq }

\* deserialize_since(buf, last_seq_num), filtered by is_fill: the sets of
\* sequence numbers it may yield.  Every fill after last_seq_num is
\* yielded, and fills up to last_seq_num may be yielded again.
DeserializeSince(buf, last_seq_num) ==
    { X \in SUBSET BufFills(buf) : \A q \in BufFills(buf) : q > last_seq_num => q \in X }

\* The trade documents of a set of sequence numbers, in ascending order.
RECURSIVE TradeDocs(_, _)
TradeDocs(seqs, tag) ==
    IF seqs = {} THEN <<>>
    ELSE LET least == CHOOSE q \in seqs : \A r \in seqs : q <= r IN
         <<[key |-> least, tag |-> tag]>> \o TradeDocs(seqs \ {least}, tag)

TaskTag(i) == IF i = 1 THEN "t1" ELSE IF i = 2 THEN "t2" ELSE "t3"

TradeInit ==
    /\ tr_fills \in SUBSET (1..MaxSeq)
    /\ tr_eq = 0
    /\ tr_trades = {}
    /\ tr_tasks = <<>>

TradeIdle ==
    /\ tr_fills = {}
    /\ tr_eq = -1
    /\ tr_trades = {}
    /\ tr_tasks = <<>>

\* An account update arrives and tokio::spawn starts Trade::update on its
\* buffer; updates arrive in the order of the account's states.
TradeSpawn ==
    /\ TradeFrame
    /\ tr_eq >= 0
    /\ Len(tr_tasks) < MaxTasks
    /\ \E buf \in Buffers :
         /\ Len(tr_tasks) > 0 => buf.seq >= tr_tasks[Len(tr_tasks)].buf.seq
         /\ tr_tasks' = Append(tr_tasks, [buf |-> buf, pc |-> "find_one", last_seq_num |-> 0,
                                          ret |-> "none"])
    /\ UNCHANGED <<tr_fills, tr_eq, tr_trades>>

\* eq_coll.find_one: last_seq_num is the stored number, or 0.
TradeFindOne ==
    /\ TradeFrame
    /\ \E i \in 1..Len(tr_tasks) :
         /\ tr_tasks[i].pc = "find_one"
         /\ tr_tasks' = [tr_tasks EXCEPT ![i].last_seq_num = tr_eq, ![i].pc = "insert"]
    /\ UNCHANGED <<tr_fills, tr_eq, tr_trades>>

\* find_one fails and `?` returns the error.
TradeFindOneFail ==
    /\ TradeFrame
    /\ \E i \in 1..Len(tr_tasks) :
         /\ tr_tasks[i].pc = "find_one"
         /\ tr_tasks' = [tr_tasks EXCEPT ![i].ret = "Err", ![i].pc = "done"]
    /\ UNCHANGED <<tr_fills, tr_eq, tr_trades>>

\* deserialize_since, the fills mapped to documents, and insert; an error
\* of insert returns before the sequence number is touched.
TradeInsert ==
    /\ TradeFrame
    /\ \E i \in 1..Len(tr_tasks) :
         /\ tr_tasks[i].pc = "insert"
         /\ \E seqs \in DeserializeSince(tr_tasks[i].buf, tr_tasks[i].last_seq_num),
               reply \in Replies :
              LET r == Insert(tr_trades, TradeDocs(seqs, TaskTag(i)), reply) IN
              /\ tr_trades' = r.coll
              /\ tr_tasks' = IF r.ret = "Ok"
                             THEN [tr_tasks EXCEPT ![i].pc = "update_one"]
                             ELSE [tr_tasks EXCEPT ![i].ret = "Err", ![i].pc = "done"]
    /\ UNCHANGED <<tr_fills, tr_eq>>

\* eq_coll.update_one with upsert: eventQueue[symbol] = new_seq_num.
TradeUpdateOne ==
    /\ TradeFrame
    /\ \E i \in 1..Len(tr_tasks) :
         /\ tr_tasks[i].pc = "update_one"
         /\ tr_eq' = tr_tasks[i].buf.seq
         /\ tr_tasks' = [tr_tasks EXCEPT ![i].ret = "Ok", ![i].pc = "done"]
    /\ UNCHANGED <<tr_fills, tr_trades>>

\* update_one fails and `?` returns the error.
TradeUpdateOneFail ==
    /\ TradeFrame
    /\ \E i \in 1..Len(tr_tasks) :
         /\ tr_tasks[i].pc = "update_one"
         /\ tr_tasks' = [tr_tasks EXCEPT ![i].ret = "Err", ![i].pc = "done"]
    /\ UNCHANGED <<tr_fills, tr_eq, tr_trades>>

TradeNext ==
    \/ TradeSpawn
    \/ TradeFindOne
    \/ TradeFindOneFail
    \/ TradeInsert
    \/ TradeUpdateOne
    \/ TradeUpdateOneFail

(***************************************************************************)
(* The recorder: one signature seen by listen_logs and by poll_logs         *)
(***************************************************************************)

\* The two paths that call events::process.
Paths == {"listen_logs", "poll_logs"}

\* The collections of simple_update_impl that process() writes.
LogColls == {"rpnl", "liq", "bank", "balanceChange", "swap"}

\* The key tuples of the documents parse() yields for one collection.
KeyBatches == UNION { [1..n -> DocKeys] : n \in 0..MaxBatch }

PathStart == [pc |-> "call", i |-> 1, errors |-> <<>>, ret |-> "none"]

LogsInit ==
    /\ lg_name \in LogColls
    /\ lg_batch \in KeyBatches
    /\ lg_coll = {}
    /\ lg_index = FALSE
    /\ lg_path = [p \in Paths |-> PathStart]

LogsIdle ==
    /\ lg_name = "none"
    /\ lg_batch = <<>>
    /\ lg_coll = {}
    /\ lg_index = FALSE
    /\ lg_path = [p \in Paths |-> [PathStart EXCEPT !.pc = "idle"]]

\* A create_indexes that does nothing.
LogsCreateNoIndex(p) ==
    /\ lg_path[p].pc = "call"
    /\ lg_batch # <<>>
    /\ lg_path' = [lg_path EXCEPT ![p].pc = "insert_many"]
    /\ UNCHANGED <<lg_name, lg_batch, lg_coll, lg_index>>

\* insert(): create_indexes builds the unique index (or finds it).
LogsCreateIndexes(p) ==
    /\ lg_path[p].pc = "call"
    /\ lg_batch # <<>>
    /\ lg_index' = TRUE
    /\ lg_path' = [lg_path EXCEPT ![p].pc = "insert_many"]
    /\ UNCHANGED <<lg_name, lg_batch, lg_coll>>

\* insert() of an empty batch returns Ok at once.
LogsSkipEmpty(p) ==
    /\ lg_path[p].pc = "call"
    /\ lg_batch = <<>>
    /\ lg_path' = [lg_path EXCEPT ![p].pc = "done", ![p].ret = "Ok"]
    /\ UNCHANGED <<lg_name, lg_batch, lg_coll, lg_index>>

\* The server writes the next document of the path's unordered
\* insert_many: under the unique index a key that is there already is a
\* write error 11000.
LogsInsertDoc(p) ==
    /\ lg_path[p].pc = "insert_many"
    /\ lg_path[p].i <= Len(lg_batch)
    /\ LET key == lg_batch[lg_path[p].i] IN
         IF lg_index /\ key \in KeysOf(lg_coll)
         THEN /\ lg_path' = [lg_path EXCEPT ![p].i = @ + 1,
                                            ![p].errors = Append(@, DuplicateKey)]
              /\ lg_coll' = lg_coll
         ELSE /\ lg_path' = [lg_path EXCEPT ![p].i = @ + 1]
              /\ lg_coll' = lg_coll \cup {[key |-> key, tag |-> p]}
    /\ UNCHANGED <<lg_name, lg_batch, lg_index>>

\* insert_many returns and insert() matches on the result; process() logs
\* an error and returns nothing.
LogsInsertReturn(p) ==
    /\ lg_path[p].pc = "insert_many"
    /\ lg_path[p].i > Len(lg_batch)
    /\ lg_path' = [lg_path EXCEPT
          ![p].pc = "done",
          ![p].ret = InsertResult([kind |-> IF lg_path[p].errors = <<>> THEN "Ok" ELSE "BulkWrite",
                                   errors |-> lg_path[p].errors])]
    /\ UNCHANGED <<lg_name, lg_batch, lg_coll, lg_index>>

LogsIndexStep == \E p \in Paths : LogsCreateIndexes(p) /\ LogsFrame

LogsEmptyStep == \E p \in Paths : LogsSkipEmpty(p) /\ LogsFrame

LogsDocStep == \E p \in Paths : LogsInsertDoc(p) /\ LogsFrame

LogsReturnStep == \E p \in Paths : LogsInsertReturn(p) /\ LogsFrame

LogsNext ==
    \/ LogsIndexStep
    \/ LogsEmptyStep
    \/ LogsDocStep
    \/ LogsReturnStep

(***************************************************************************)
(* The recorder: poll_update_funding                                        *)
(***************************************************************************)

\* Largest last_updated of the model.
MaxStamp == 2

\* The markets, in the order load_dex_markets returns them.
Symbols == <<"X", "Y">>

SymbolSet == { Symbols[k] : k \in 1..Len(Symbols) }

\* A filter that also takes a market whose last_updated is prev[symbol].
ToUpdateNotStrict(markets, prev) ==
    SelectSeq(Symbols, LAMBDA sym : markets[sym] >= prev[sym])

\* `to_update`: the markets with m.last_updated > prev[symbol].
ToUpdate(markets, prev) ==
    SelectSeq(Symbols, LAMBDA sym : markets[sym] > prev[sym])

\* `new_entries`: a Funding document per market of to_update.
NewEntries(markets, to_update) ==
    [k \in 1..Len(to_update) |->
        [key |-> <<to_update[k], markets[to_update[k]]>>, tag |-> "new"]]

FundingInit ==
    /\ fd_markets \in [SymbolSet -> 0..1]
    /\ fd_prev = [sym \in SymbolSet |-> 0]
    /\ fd_funding = {}
    /\ fd_batch = <<>>
    /\ fd_log = "start"

FundingIdle ==
    /\ fd_markets = [sym \in SymbolSet |-> 0]
    /\ fd_prev = [sym \in SymbolSet |-> 0]
    /\ fd_funding = {}
    /\ fd_batch = <<>>
    /\ fd_log = "idle"

\* On chain, update_perp_funding moves a market's last_updated forward.
FundingChainUpdate ==
    /\ FundingFrame
    /\ fd_log # "idle"
    /\ \E sym \in SymbolSet, t \in 1..MaxStamp :
         /\ t > fd_markets[sym]
         /\ fd_markets' = [fd_markets EXCEPT ![sym] = t]
    /\ UNCHANGED <<fd_prev, fd_funding, fd_batch, fd_log>>

\* A tick whose load_dex_markets fails: warn and continue.
FundingTickLoadFail ==
    /\ FundingFrame
    /\ fd_log # "idle"
    /\ fd_batch' = <<>>
    /\ fd_log' = "load_err"
    /\ UNCHANGED <<fd_markets, fd_prev, fd_funding>>

\* A tick with an empty to_update: "nothing to update".
FundingTickNothing ==
    /\ FundingFrame
    /\ fd_log # "idle"
    /\ ToUpdate(fd_markets, fd_prev) = <<>>
    /\ fd_batch' = <<>>
    /\ fd_log' = "nothing"
    /\ UNCHANGED <<fd_markets, fd_prev, fd_funding>>

\* A tick that inserts new_entries: on Ok prev is stored for every market
\* of to_update, on Err the tick ends with a warning.
FundingTickInsert ==
    /\ FundingFrame
    /\ fd_log # "idle"
    /\ LET to_update == ToUpdate(fd_markets, fd_prev) IN
       /\ to_update # <<>>
       /\ fd_batch' = to_update
       /\ \E reply \in Replies :
            LET r == Insert(fd_funding, NewEntries(fd_markets, to_update), reply) IN
            /\ fd_funding' = r.coll
            /\ IF r.ret = "Ok"
               THEN /\ fd_prev' = [sym \in SymbolSet |->
                                      IF \E k \in 1..Len(to_update) : to_update[k] = sym
                                      THEN fd_markets[sym] ELSE fd_prev[sym]]
                    /\ fd_log' = "inserted"
               ELSE /\ fd_prev' = fd_prev
                    /\ fd_log' = "insert_err"
    /\ UNCHANGED fd_markets

FundingNext ==
    \/ FundingChainUpdate
    \/ FundingTickLoadFail
    \/ FundingTickNothing
    \/ FundingTickInsert

(***************************************************************************)
(* The liquidator: the action liquidate() chooses                          *)
(***************************************************************************)

\* Most collaterals an account of the model holds.
NColl == 2

\* zo_abi's DUST_THRESHOLD, on the scale of CollValues.
DUST_THRESHOLD == 2

\* The start of current_weight in the search for the quote collateral.
MaxWeight == 1000

\* The values get_actual_collateral_vec yields: a borrow, nothing, dust
\* exactly at the threshold, a deposit above it.
CollValues == {-4, 0, DUST_THRESHOLD, 6}

\* `colls`: one value per non-empty collateral of the state, possibly none.
CollSeqs == UNION {[1..n -> CollValues] : n \in 0..NColl}

WeightSamples == {900, MaxWeight}

\* pos_size of a market: short, none, long.
PosSamples == {-3, 0, 1}

Abs(x) == IF x < 0 THEN -x ELSE x

RECURSIVE SumSeq(_)
SumSeq(s) == IF s = <<>> THEN 0 ELSE Head(s) + SumSeq(Tail(s))

\* collateral_tuple.min_by_key(|a| a.1): the first of the smallest values.
MinCol(colls) ==
    CHOOSE i \in 1..Len(colls) :
        \A j \in 1..Len(colls) : colls[i] < colls[j] \/ (colls[i] = colls[j] /\ i <= j)

\* The loop that looks for the quote collateral, from index i on: the last
\* collateral above the dust threshold whose weight does not exceed the
\* smallest weight picked so far; 0 for None.
RECURSIVE QuoteFrom(_, _, _, _, _)
QuoteFrom(colls, weights, i, current_weight, quote) ==
    IF i > Len(colls) THEN quote
    ELSE IF colls[i] > DUST_THRESHOLD /\ weights[i] <= current_weight
         THEN QuoteFrom(colls, weights, i + 1, weights[i], i)
         ELSE QuoteFrom(colls, weights, i + 1, current_weight, quote)

QuoteInfo(colls, weights) == QuoteFrom(colls, weights, 1, MaxWeight, 0)

\* safe_mul_i80f48(pos_size, mark.price) of market m.
Notional(pos, marks, m) == pos[m] * marks[m]

\* The first market that holds a position of non-zero notional, or 0.
FirstOpenPosition(pos, marks) ==
    IF \A m \in Markets : pos[m] * marks[m] = 0 THEN 0
    ELSE CHOOSE m \in Markets :
             /\ pos[m] * marks[m] # 0
             /\ \A j \in Markets : j < m => pos[j] * marks[j] = 0

\* positions.max_by_key(|a| a.1.abs()): the last market of the largest
\* absolute notional, or 0 for None when that notional is zero.
LargestPosition(pos, marks) ==
    LET best == CHOOSE m \in Markets :
                   \A j \in Markets :
                       \/ Abs(Notional(pos, marks, j)) < Abs(Notional(pos, marks, m))
                       \/ Abs(Notional(pos, marks, j)) = Abs(Notional(pos, marks, m)) /\ j <= m
    IN IF Notional(pos, marks, best) = 0 THEN 0 ELSE best

\* colls.iter().all(|col| col < &DUST_THRESHOLD) && colls.iter().sum().is_negative()
IsSpotBankrupt(colls) ==
    /\ \A i \in 1..Len(colls) : colls[i] < DUST_THRESHOLD
    /\ SumSeq(colls) < 0

\* The branch the if / else-if chain of liquidate() takes.
Branch(colls, weights, pos, marks, control) ==
    LET position == LargestPosition(pos, marks)
        has_positions == position # 0
        max_position_notional == IF has_positions THEN Notional(pos, marks, position) ELSE 0
        min_col == colls[MinCol(colls)]
        is_spot_bankrupt == IsSpotBankrupt(colls)
    IN IF has_positions /\ (Abs(min_col) <= Abs(max_position_notional) \/ is_spot_bankrupt)
       THEN "liquidate_perp_position"
       ELSE IF is_spot_bankrupt /\ ~has_positions
       THEN IF LargestOpenOrder(marks, control) # 0 THEN "cancel" ELSE "settle_bankruptcy"
       ELSE IF min_col < 0 /\ QuoteInfo(colls, weights) # 0
       THEN "liquidate_spot_position"
       ELSE IF LargestOpenOrder(marks, control) # 0
       THEN "cancel"
       ELSE "nothing"

ChooseInit ==
    /\ ch_colls \in CollSeqs
    /\ ch_weights \in [1..NColl -> WeightSamples]
    /\ ch_pos \in [Markets -> PosSamples]
    /\ ch_marks \in [Markets -> MarkSamples]
    /\ ch_control \in ControlSamples
    /\ ch_actions = <<>>
    /\ ch_ret = "none"
    /\ ch_pc = "start"

ChooseIdle ==
    /\ ch_colls = <<>>
    /\ ch_weights = <<>>
    /\ ch_pos = <<>>
    /\ ch_marks = <<>>
    /\ ch_control = <<>>
    /\ ch_actions = <<>>
    /\ ch_ret = "none"
    /\ ch_pc = "idle"

ChooseBranch == Branch(ch_colls, ch_weights, ch_pos, ch_marks, ch_control)

\* position_index as the call receives it: the market of the largest
\* position for liquidate_perp_position; the other calls take none.
PositionIndex(action) ==
    IF action = "liquidate_perp_position" THEN LargestPosition(ch_pos, ch_marks) ELSE 0

\* min_by_key finds no collateral: return Err(NoCollateral).
LiquidateNoCollateral ==
    /\ ch_pc = "start"
    /\ ch_colls = <<>>
    /\ ch_ret' = "Err"
    /\ ch_pc' = "done"
    /\ UNCHANGED <<ch_colls, ch_weights, ch_pos, ch_marks, ch_control, ch_actions>>
    /\ ChooseFrame

\* The branch calls one action; the call's result, through `?`, is the
\* result of liquidate().
Call(action) ==
    /\ ch_pc = "start"
    /\ ch_colls # <<>>
    /\ ChooseBranch = action
    /\ ch_actions' = Append(ch_actions, [name |-> action, position_index |-> PositionIndex(action)])
    /\ ch_ret' \in {"Ok", "Err"}
    /\ ch_pc' = "done"
    /\ UNCHANGED <<ch_colls, ch_weights, ch_pos, ch_marks, ch_control>>

LiquidatePerp == Call("liquidate_perp_position") /\ ChooseFrame

LiquidateSettle == Call("settle_bankruptcy") /\ ChooseFrame

LiquidateSpot == Call("liquidate_spot_position") /\ ChooseFrame

LiquidateCancel == Call("cancel") /\ ChooseFrame

\* No branch of the chain is taken: Ok(()) without any call.
LiquidateNothing ==
    /\ ch_pc = "start"
    /\ ch_colls # <<>>
    /\ ChooseBranch = "nothing"
    /\ ch_ret' = "Ok"
    /\ ch_pc' = "done"
    /\ UNCHANGED <<ch_colls, ch_weights, ch_pos, ch_marks, ch_control, ch_actions>>
    /\ ChooseFrame

ChooseNext ==
    \/ LiquidateNoCollateral
    \/ LiquidatePerp
    \/ LiquidateSettle
    \/ LiquidateSpot
    \/ LiquidateCancel
    \/ LiquidateNothing

(***************************************************************************)
(* The liquidator's margin fractions: get_mf and check_mf                  *)
(***************************************************************************)

\* I80F48::ONE at the resolution of the model: 10 fractional bits stand for
\* the 48 of I80F48.  Every I80F48 of the model is its value times One.
One == 1024

\* zo_abi's spot margin requirements, in millionths.
SPOT_INITIAL_MARGIN_REQ == 1100000

SPOT_MAINT_MARGIN_REQ == 1030000

Million == 1000000

Thousand == 1000

\* I80F48::from_num of an integer.
FromNum(n) == n * One

\* checked_mul of two I80F48: the exact product, its extra fractional bits
\* dropped (rounded down).
SafeMul(a, b) == (a * b) \div One

\* unwrapped_div of two I80F48: the quotient of the bits, truncated.
UnwrappedDiv(a, b) == TruncDiv(a * One, b)

\* I80F48::from_num(a) / I80F48::from_num(b) for two integers.
RatioOf(a, b) == TruncDiv(a * One, b)

\* I80F48::from_str_binary("0.1") and ("0.101"): binary fractions.
Binary0_1 == One \div 2

\* A Cmf factor that lost its first binary digit: "0.001".
Binary0_001 == One \div 8

Binary0_101 == One \div 2 + One \div 8

FractionTypes == {"Initial", "Cancel", "Maintenance"}

\* The number of collaterals and of perp markets of an account.
NCollOf(a) == Len(a.collateral)

NPerpOf(a) == Len(a.pos_size)

\* get_position_vector: the collateral balances, then the perp sizes.
GetPositionVector(a) ==
    [i \in 1..NCollOf(a) |-> FromNum(a.collateral[i])]
    \o [m \in 1..NPerpOf(a) |-> FromNum(a.pos_size[m])]

\* get_position_open_vector: the perp entries become the larger of
\* |pos_size + coin_on_bids| and |pos_size - coin_on_asks|.
GetPositionOpenVector(a) ==
    [i \in 1..NCollOf(a) |-> FromNum(a.collateral[i])]
    \o [m \in 1..NPerpOf(a) |->
           Larger(FromNum(Abs(a.pos_size[m] + a.coin_on_bids[m])),
                  FromNum(Abs(a.pos_size[m] - a.coin_on_asks[m])))]

\* get_price_vector: the oracle price of a collateral times its borrow
\* multiplier (negative position) or supply multiplier; the price of a perp.
GetPriceVector(a, position) ==
    [i \in 1..NCollOf(a) |->
        SafeMul(a.oracle[i],
                IF position[i] < 0 THEN a.borrow_multiplier ELSE a.supply_multiplier)]
    \o [m \in 1..NPerpOf(a) |-> a.perp_price[m]]

RECURSIVE Pow10(_)
Pow10(n) == IF n = 0 THEN 1 ELSE 10 * Pow10(n - 1)

\* The funding difference taken as market minus user.
FundingMarketMinusUser(a, m) ==
    UnwrappedDiv(SafeMul(FromNum(a.funding_cache[m]) - FromNum(a.funding_index[m]),
                         FromNum(a.pos_size[m])),
                 FromNum(Pow10(a.asset_decimals[m])))

\* get_pnl_vectors, one market: the unrealized funding, the realized and the
\* unrealized pnl of a market with a position; zero without one.
UnrealizedFunding(a, m) ==
    UnwrappedDiv(SafeMul(FromNum(a.funding_index[m]) - FromNum(a.funding_cache[m]),
                         FromNum(a.pos_size[m])),
                 FromNum(Pow10(a.asset_decimals[m])))

RealizedPnl(a, m) ==
    IF a.pos_size[m] = 0 THEN 0
    ELSE UnrealizedFunding(a, m) + FromNum(a.realized_pnl[m])

UnrealizedPnl(a, m) ==
    IF a.pos_size[m] = 0 THEN 0
    ELSE SafeMul(FromNum(a.pos_size[m]), a.perp_price[m]) + FromNum(a.native_pc_total[m])

RECURSIVE SumTo(_, _)
SumTo(f, n) == IF n = 0 THEN 0 ELSE f[n] + SumTo(f, n - 1)

TotalRealizedPnl(a) == SumTo([m \in 1..NPerpOf(a) |-> RealizedPnl(a, m)], NPerpOf(a))

TotalUnrealizedPnl(a) == SumTo([m \in 1..NPerpOf(a) |-> UnrealizedPnl(a, m)], NPerpOf(a))

\* get_base_weight_vector: weight / 1000 and base_imf / 1000.
GetBaseWeightVector(a) ==
    [i \in 1..NCollOf(a) |-> RatioOf(a.weight[i], Thousand)]
    \o [m \in 1..NPerpOf(a) |-> RatioOf(a.base_imf[m], Thousand)]

\* The negation taken before the division: (-(req / 1_000_000)) / w - 1.
NegatedFirst(req, base_weight) ==
    UnwrappedDiv(-RatioOf(req, Million), base_weight) - One

\* -(req / 1_000_000).unwrapped_div(base_weight).unwrapped_sub(ONE)
SpotShortWeight(req, base_weight) ==
    -(UnwrappedDiv(RatioOf(req, Million), base_weight) - One)

Sign(position) == IF position < 0 THEN -1 ELSE 1

\* weight_conversion.
WeightConversion(return_type, position, base_weight, is_spot) ==
    CASE return_type \in {"Mf", "Omf"} ->
            IF is_spot /\ ~(position < 0) THEN base_weight
            ELSE IF is_spot THEN One
            ELSE 0
      [] return_type = "Imf" ->
            IF is_spot /\ ~(position < 0) THEN 0
            ELSE IF is_spot THEN SpotShortWeight(SPOT_INITIAL_MARGIN_REQ, base_weight)
            ELSE Sign(position) * base_weight
      [] return_type = "Cmf" ->
            IF is_spot /\ ~(position < 0) THEN 0
            ELSE IF is_spot THEN SpotShortWeight(SPOT_INITIAL_MARGIN_REQ, base_weight)
            ELSE Sign(position) * SafeMul(Binary0_101, base_weight)
      [] return_type = "Mmf" ->
            IF is_spot /\ ~(position < 0) THEN 0
            ELSE IF is_spot THEN SpotShortWeight(SPOT_MAINT_MARGIN_REQ, base_weight)
            ELSE Sign(position) * SafeMul(Binary0_1, base_weight)

\* The division of weight_conversion by a base weight of zero panics: a
\* borrowed collateral of weight zero in a mode other than Mf and Omf.
WeightPanics(return_type, position, base_weight, n_coll) ==
    /\ return_type \notin {"Mf", "Omf"}
    /\ \E i \in 1..n_coll : position[i] < 0 /\ base_weight[i] = 0

\* The term of slot i in get_mf.
MfTerm(mf, position, prices, total_realized_pnl, base_weight, n_coll, i) ==
    LET weight == WeightConversion(mf, position[i], base_weight[i], i <= n_coll)
        weighted_price == SafeMul(prices[i], weight)
    IN (IF i = 1 THEN SafeMul(total_realized_pnl, weight) ELSE 0)
       + SafeMul(position[i], weighted_price)

\* get_mf.
GetMf(mf, position, prices, total_realized_pnl, total_unrealized_pnl, base_weight, n_coll) ==
    LET terms == [i \in 1..Len(position) |->
                     MfTerm(mf, position, prices, total_realized_pnl, base_weight, n_coll, i)]
        pos_unrealized == CASE mf = "Mf" -> total_unrealized_pnl
                            [] mf = "Omf" -> IF total_unrealized_pnl < 0
                                             THEN total_unrealized_pnl ELSE 0
                            [] OTHER -> 0
    IN SumTo(terms, Len(position)) + pos_unrealized

\* The position vector check_mf takes for a FractionType.
CheckPosition(check, a) ==
    IF check \in {"Initial", "Cancel"} THEN GetPositionOpenVector(a) ELSE GetPositionVector(a)

\* get_mf on the vectors check_mf builds.
MfOf(mf, check, a) ==
    LET position == CheckPosition(check, a) IN
    GetMf(mf, position, GetPriceVector(a, position), TotalRealizedPnl(a),
          TotalUnrealizedPnl(a), GetBaseWeightVector(a), NCollOf(a))

\* The two modes a FractionType compares.
Numerator(check) == IF check = "Maintenance" THEN "Mf" ELSE "Omf"

Denominator(check) ==
    CASE check = "Initial" -> "Imf" [] check = "Cancel" -> "Cmf" [] OTHER -> "Mmf"

\* A check_mf that asks for strictly more than the tolerated fraction.
CheckMfStrict(check, a, tolerance) ==
    IF WeightPanics(Denominator(check), CheckPosition(check, a), GetBaseWeightVector(a), NCollOf(a))
    THEN "panic"
    ELSE IF MfOf(Numerator(check), check, a) > SafeMul(MfOf(Denominator(check), check, a), tolerance)
    THEN "true" ELSE "false"

\* check_mf.
CheckMf(check, a, tolerance) ==
    IF WeightPanics(Denominator(check), CheckPosition(check, a), GetBaseWeightVector(a), NCollOf(a))
    THEN "panic"
    ELSE IF MfOf(Numerator(check), check, a) >= SafeMul(MfOf(Denominator(check), check, a), tolerance)
    THEN "true" ELSE "false"

\* The tolerance 0.99995 at the resolution of the model, and no tolerance.
ToleranceSamples == {One - 1, One}

\* Balances of the two collaterals: a borrow, nothing, one unit, a deposit.
BalanceSamples == {-2, 0, 1, 3}

\* Oracle prices of the first collateral: the smallest I80F48, just under
\* one, one.
OracleSamples == {1, One - 1, One}

\* Per-mille weights of a collateral.
CollWeightSamples == {0, 900, Thousand}

MultiplierSamples == {[supply |-> One, borrow |-> One], [supply |-> One + One \div 2, borrow |-> 2 * One]}

\* One perp market: its position, what was paid for it, its realized pnl
\* and its base_imf.
PerpSamples ==
    [pos_size : {-1, 0, 2}, native_pc_total : {-2, 0}, realized_pnl : {-1, 0, 2},
     base_imf : {100, Thousand}]

AccountOf(c, o, w, mu, p) ==
    [collateral |-> c, oracle |-> <<o, One>>, weight |-> w,
     supply_multiplier |-> mu.supply, borrow_multiplier |-> mu.borrow,
     pos_size |-> <<p.pos_size>>, coin_on_bids |-> <<0>>, coin_on_asks |-> <<0>>,
     native_pc_total |-> <<p.native_pc_total>>, realized_pnl |-> <<p.realized_pnl>>,
     funding_index |-> <<0>>, funding_cache |-> <<0>>, asset_decimals |-> <<0>>,
     perp_price |-> <<One>>, base_imf |-> <<p.base_imf>>]

AccountSamples ==
    {AccountOf(c, o, w, mu, p) :
        c \in [1..2 -> BalanceSamples], o \in OracleSamples,
        w \in [1..2 -> CollWeightSamples], mu \in MultiplierSamples, p \in PerpSamples}

MfInit ==
    /\ mf_acct \in AccountSamples
    /\ mf_tol \in ToleranceSamples
    /\ mf_check = "none"
    /\ mf_lowered = 0
    /\ mf_raised = [i |-> 0, by |-> 0]
    /\ mf_ok = "none"
    /\ mf_pc = "start"

MfIdle ==
    /\ mf_acct = <<>>
    /\ mf_tol = 0
    /\ mf_check = "none"
    /\ mf_lowered = 0
    /\ mf_raised = [i |-> 0, by |-> 0]
    /\ mf_ok = "none"
    /\ mf_pc = "idle"

\* One call of check_mf.
MfCheck ==
    /\ mf_pc = "start"
    /\ \E check \in FractionTypes :
          /\ mf_check' = check
          /\ mf_ok' = CheckMf(check, mf_acct, mf_tol)
    /\ mf_pc' = "checked"
    /\ UNCHANGED <<mf_acct, mf_tol, mf_lowered, mf_raised>>
    /\ MfFrame

\* A positive collateral balance goes down by one small unit and the same
\* check is made again.
MfLowerCollateral ==
    /\ mf_pc = "checked"
    /\ mf_ok # "panic"
    /\ \E i \in 1..NCollOf(mf_acct) :
          /\ mf_acct.collateral[i] > 0
          /\ mf_acct' = [mf_acct EXCEPT !.collateral[i] = @ - 1]
          /\ mf_lowered' = i
    /\ mf_ok' = CheckMf(mf_check, mf_acct', mf_tol)
    /\ mf_pc' = "lowered"
    /\ UNCHANGED <<mf_check, mf_tol, mf_raised>>
    /\ MfFrame

\* The amounts a collateral balance goes up by.
RaiseSamples == {1, 3}

\* One collateral balance of the Margin goes up by a positive amount;
\* everything else get_mf reads stays as it is.
MfRaiseCollateral ==
    /\ mf_pc = "start"
    /\ \E i \in 1..NCollOf(mf_acct), by \in RaiseSamples :
          /\ mf_acct' = [mf_acct EXCEPT !.collateral[i] = @ + by]
          /\ mf_raised' = [i |-> i, by |-> by]
    /\ mf_pc' = "raised"
    /\ UNCHANGED <<mf_check, mf_tol, mf_lowered, mf_ok>>
    /\ MfFrame

MfNext ==
    \/ MfCheck
    \/ MfLowerCollateral
    \/ MfRaiseCollateral

(***************************************************************************)
(* The liquidator: estimate_spot_liquidation_size                          *)
(***************************************************************************)

\* I80F48::from_num(0.0001f64) on the scale of the model, where One stands
\* for 2^48: a threshold a few of the smallest units wide.
DenomThreshold == 3

\* `/` of two I80F48 of either sign: the quotient of the bits, truncated.
SignedDiv(a, b) ==
    LET q == (Abs(a) * One) \div Abs(b) IN
    IF (a < 0) = (b < 0) THEN q ELSE -q

\* get_weight_vector.
GetWeightVector(return_type, position, base_weight, n_coll) ==
    [i \in 1..Len(position) |->
        WeightConversion(return_type, position[i], base_weight[i], i <= n_coll)]

\* `position` of estimate_spot_liquidation_size: the open vector, the total
\* realized pnl over the first price added to its first entry.
EstPosition(a) ==
    LET position == GetPositionOpenVector(a)
        price_vector == GetPriceVector(a, position)
    IN [position EXCEPT ![1] = @ + SignedDiv(TotalRealizedPnl(a), price_vector[1])]

EstPriceVector(a) == GetPriceVector(a, GetPositionOpenVector(a))

\* (ONE + asset_fee) / (ONE - quote_fee)
LiqFee(a, asset_index, quote_index) ==
    SignedDiv(One + RatioOf(a.liq_fee[asset_index], Thousand),
              One - RatioOf(a.liq_fee[quote_index], Thousand))

\* What makes estimate_spot_liquidation_size panic before it has `denom`: a
\* first price of zero, a quote fee of 1000 per mille, a borrowed collateral
\* of weight zero.
EstPanics(a, asset_index, quote_index) ==
    \/ EstPriceVector(a)[1] = 0
    \/ One - RatioOf(a.liq_fee[quote_index], Thousand) = 0
    \/ WeightPanics("Imf", EstPosition(a), GetBaseWeightVector(a), NCollOf(a))

\* `denom`.
Denom(a, asset_index, quote_index) ==
    LET position == EstPosition(a)
        weight_vector == GetBaseWeightVector(a)
        imf_weight == GetWeightVector("Imf", position, weight_vector, NCollOf(a))
        omf_weight == GetWeightVector("Omf", position, weight_vector, NCollOf(a))
    IN SafeMul(a.oracle[asset_index],
               SafeMul(omf_weight[quote_index], LiqFee(a, asset_index, quote_index))
               - omf_weight[asset_index] - imf_weight[quote_index] + imf_weight[asset_index])

\* `numerator`.
EstNumerator(a) ==
    LET position == EstPosition(a)
        price_vector == EstPriceVector(a)
        weight_vector == GetBaseWeightVector(a)
        imf_weight == GetWeightVector("Imf", position, weight_vector, NCollOf(a))
        omf_weight == GetWeightVector("Omf", position, weight_vector, NCollOf(a))
        terms == [i \in 1..Len(position) |->
                     SafeMul(SafeMul(position[i], price_vector[i]), omf_weight[i] - imf_weight[i])]
    IN Least(TotalUnrealizedPnl(a), 0) + SumTo(terms, Len(position))

\* The value of Some(..): the estimate in sUSD, capped by what is owed of the
\* asset and by what is held of the quote.
EstCapped(a, asset_index, quote_index, amount) ==
    LET price_vector == EstPriceVector(a)
        usdc_amount == SafeMul(amount, price_vector[asset_index])
    IN Least(Least(usdc_amount,
                   SafeMul(-FromNum(a.collateral[asset_index]), price_vector[asset_index])),
             SafeMul(FromNum(a.collateral[quote_index]), price_vector[quote_index]))

\* An estimate that divides whatever the denominator is, unless it is zero.
EstimateWithoutThreshold(a, asset_index, quote_index) ==
    IF EstPanics(a, asset_index, quote_index) THEN [kind |-> "panic", value |-> 0]
    ELSE LET denom == Denom(a, asset_index, quote_index) IN
         IF denom = 0 THEN [kind |-> "None", value |-> 0]
         ELSE LET amount == SignedDiv(EstNumerator(a), denom) IN
              IF amount > 0
              THEN [kind |-> "Some", value |-> EstCapped(a, asset_index, quote_index, amount)]
              ELSE [kind |-> "None", value |-> 0]

\* estimate_spot_liquidation_size.
EstimateSpotLiquidationSize(a, asset_index, quote_index) ==
    IF EstPanics(a, asset_index, quote_index) THEN [kind |-> "panic", value |-> 0]
    ELSE LET denom == Denom(a, asset_index, quote_index) IN
         IF Abs(denom) < DenomThreshold THEN [kind |-> "None", value |-> 0]
         ELSE LET amount == SignedDiv(EstNumerator(a), denom) IN
              IF amount > 0
              THEN [kind |-> "Some", value |-> EstCapped(a, asset_index, quote_index, amount)]
              ELSE [kind |-> "None", value |-> 0]

\* Balances, oracle prices, weights and liquidation fees of the two
\* collaterals; one perp market.
EstBalanceSamples == {-2, 0, 3}

EstOracleSamples == {16, One}

EstFeeSamples == {0, 50}

EstPerpSamples ==
    [pos_size : {0, 2}, native_pc_total : {-3, 0}, realized_pnl : {-1, 0}, coin_on_bids : {0, 1}]

EstAccountOf(c, o, w, f, mu, p) ==
    [collateral |-> c, oracle |-> o, weight |-> w, liq_fee |-> f,
     supply_multiplier |-> mu.supply, borrow_multiplier |-> mu.borrow,
     pos_size |-> <<p.pos_size>>, coin_on_bids |-> <<p.coin_on_bids>>, coin_on_asks |-> <<0>>,
     native_pc_total |-> <<p.native_pc_total>>, realized_pnl |-> <<p.realized_pnl>>,
     funding_index |-> <<0>>, funding_cache |-> <<0>>, asset_decimals |-> <<0>>,
     perp_price |-> <<One>>, base_imf |-> <<100>>]

EstAccountSamples ==
    {EstAccountOf(c, o, w, f, mu, p) :
        c \in [1..2 -> EstBalanceSamples], o \in [1..2 -> EstOracleSamples],
        w \in [1..2 -> CollWeightSamples], f \in [1..2 -> EstFeeSamples],
        mu \in MultiplierSamples, p \in EstPerpSamples}

EstimateInit ==
    /\ es_acct \in EstAccountSamples
    /\ es_asset \in 1..2
    /\ es_quote \in (1..2) \ {es_asset}
    /\ es_ret = [kind |-> "none", value |-> 0]
    /\ es_pc = "start"

EstimateIdle ==
    /\ es_acct = <<>>
    /\ es_asset = 0
    /\ es_quote = 0
    /\ es_ret = [kind |-> "none", value |-> 0]
    /\ es_pc = "idle"

\* The call returns what estimate_spot_liquidation_size computes.
Returns(kind) ==
    /\ es_pc = "start"
    /\ EstimateSpotLiquidationSize(es_acct, es_asset, es_quote).kind = kind
    /\ es_ret' = EstimateSpotLiquidationSize(es_acct, es_asset, es_quote)
    /\ es_pc' = "done"
    /\ UNCHANGED <<es_acct, es_asset, es_quote>>

EstimatePanic == Returns("panic") /\ EstimateFrame

EstimateNone == Returns("None") /\ EstimateFrame

EstimateSome == Returns("Some") /\ EstimateFrame

EstimateNext ==
    \/ EstimatePanic
    \/ EstimateNone
    \/ EstimateSome

(***************************************************************************)
(* Crank: dispatch (crank.rs)                                              *)
(***************************************************************************)

GET_STATUS_RETRIES == 25

Blockhashes == {1, 2}

Signatures == {1, 2}

\* What one get_signature_status call can answer: Ok(None), Ok(Some(Ok)),
\* Ok(Some(Err(e))), or the RPC call itself failing.
Statuses == {"None", "SomeOk", "SomeErr", "RpcErr"}

NoReturn == [kind |-> "none", sg |-> 0]

MutStatusResult(status, sg) ==
    CASE status = "SomeOk" -> [kind |-> "Ok", sg |-> sg]
      [] status = "SomeErr" -> [kind |-> "Ok", sg |-> sg]
      [] status = "RpcErr" -> [kind |-> "ClientError", sg |-> 0]

\* The arms of the match that return from aux, and the `?` on the call.
StatusResult(status, sg) ==
    CASE status = "SomeOk" -> [kind |-> "Ok", sg |-> sg]
      [] status = "SomeErr" -> [kind |-> "TransactionError", sg |-> 0]
      [] status = "RpcErr" -> [kind |-> "ClientError", sg |-> 0]

DispatchInit ==
    /\ dp_bh = 0
    /\ dp_sg = 0
    /\ dp_statuses = <<>>
    /\ dp_valid = "true"
    /\ dp_ret = NoReturn
    /\ dp_pc = "blockhash"

DispatchIdle ==
    /\ dp_bh = 0
    /\ dp_sg = 0
    /\ dp_statuses = <<>>
    /\ dp_valid = "true"
    /\ dp_ret = NoReturn
    /\ dp_pc = "idle"

\* A `?` on a failed RPC call: aux returns the client's error.
Fails(pc) ==
    /\ dp_pc = pc
    /\ dp_ret' = [kind |-> "ClientError", sg |-> 0]
    /\ dp_pc' = "done"

\* st.rpc.get_latest_blockhash()?
GetLatestBlockhash ==
    /\ dp_pc = "blockhash"
    /\ \E bh \in Blockhashes : dp_bh' = bh
    /\ dp_pc' = "send"
    /\ UNCHANGED <<dp_sg, dp_statuses, dp_valid, dp_ret>>
    /\ DispatchFrame

GetLatestBlockhashErr ==
    /\ Fails("blockhash")
    /\ UNCHANGED <<dp_bh, dp_sg, dp_statuses, dp_valid>>
    /\ DispatchFrame

\* st.rpc.send_transaction(&tx)?
SendTransaction ==
    /\ dp_pc = "send"
    /\ \E sg \in Signatures : dp_sg' = sg
    /\ dp_pc' = "poll"
    /\ UNCHANGED <<dp_bh, dp_statuses, dp_valid, dp_ret>>
    /\ DispatchFrame

SendTransactionErr ==
    /\ Fails("send")
    /\ UNCHANGED <<dp_bh, dp_sg, dp_statuses, dp_valid>>
    /\ DispatchFrame

\* One iteration of `for _ in 0..GET_STATUS_RETRIES` whose status is None:
\* the loop goes on to ask whether the blockhash is still valid.
GetSignatureStatusNone ==
    /\ dp_pc = "poll"
    /\ Len(dp_statuses) < GET_STATUS_RETRIES
    /\ dp_statuses' = Append(dp_statuses, "None")
    /\ dp_pc' = "valid"
    /\ UNCHANGED <<dp_bh, dp_sg, dp_valid, dp_ret>>
    /\ DispatchFrame

\* One iteration whose status returns from aux.
GetSignatureStatusReturn ==
    /\ dp_pc = "poll"
    /\ Len(dp_statuses) < GET_STATUS_RETRIES
    /\ \E status \in Statuses \ {"None"} :
          /\ dp_statuses' = Append(dp_statuses, status)
          /\ dp_ret' = StatusResult(status, dp_sg)
    /\ dp_pc' = "done"
    /\ UNCHANGED <<dp_bh, dp_sg, dp_valid>>
    /\ DispatchFrame

\* is_blockhash_valid answered true: sleep GET_STATUS_WAIT, next iteration.
BlockhashValid ==
    /\ dp_pc = "valid"
    /\ dp_valid' = "true"
    /\ dp_pc' = "poll"
    /\ UNCHANGED <<dp_bh, dp_sg, dp_statuses, dp_ret>>
    /\ DispatchFrame

\* is_blockhash_valid answered false: break, then Err(ConfirmationTimeout(sg)).
BlockhashInvalid ==
    /\ dp_pc = "valid"
    /\ dp_valid' = "false"
    /\ dp_ret' = [kind |-> "ConfirmationTimeout", sg |-> dp_sg]
    /\ dp_pc' = "done"
    /\ UNCHANGED <<dp_bh, dp_sg, dp_statuses>>
    /\ DispatchFrame

BlockhashValidErr ==
    /\ Fails("valid")
    /\ dp_valid' = "error"
    /\ UNCHANGED <<dp_bh, dp_sg, dp_statuses>>
    /\ DispatchFrame

\* The for loop ran out of iterations: Err(ConfirmationTimeout(sg)).
RetriesExhausted ==
    /\ dp_pc = "poll"
    /\ Len(dp_statuses) = GET_STATUS_RETRIES
    /\ dp_ret' = [kind |-> "ConfirmationTimeout", sg |-> dp_sg]
    /\ dp_pc' = "done"
    /\ UNCHANGED <<dp_bh, dp_sg, dp_statuses, dp_valid>>
    /\ DispatchFrame

\* dispatch logs the result and returns; the next tick dispatches afresh.
DispatchAgain ==
    /\ dp_pc = "done"
    /\ dp_bh' = 0
    /\ dp_sg' = 0
    /\ dp_statuses' = <<>>
    /\ dp_valid' = "true"
    /\ dp_ret' = NoReturn
    /\ dp_pc' = "blockhash"
    /\ DispatchFrame

DispatchNext ==
    \/ GetLatestBlockhash
    \/ GetLatestBlockhashErr
    \/ SendTransaction
    \/ SendTransactionErr
    \/ GetSignatureStatusNone
    \/ GetSignatureStatusReturn
    \/ BlockhashValid
    \/ BlockhashInvalid
    \/ BlockhashValidErr
    \/ RetriesExhausted
    \/ DispatchAgain

(***************************************************************************)
(* Periodic timer: interval, loop_blocking (crank.rs), liquidate_loop      *)
(* (liquidation.rs).  The Interval is tokio's: interval(d) is due at once, *)
(* and a tick that completes late reschedules by its MissedTickBehavior.   *)
(* Time is counted in units coarser than tokio's 5 ms lateness tolerance.  *)
(***************************************************************************)

TimerHorizon == 14

Periods == {2, 3}

\* How long one pass of the loop body can take: nothing (loop_blocking only
\* spawns), less than a period, or several periods (check_all_accounts).
BodyDurations == {0, 1, 3, 7}

\* How late the reactor can wake the task after its deadline.
WakeLags == {0, 1}

\* MissedTickBehavior::Burst, the default the loops do not keep.
BurstNextTimeout(timeout, now, period) == timeout + period

\* MissedTickBehavior::Skip: the next multiple of the period after now.
SkipNextTimeout(timeout, now, period) ==
    IF now > timeout
    THEN now + period - ((now - timeout) % period)
    ELSE timeout + period

TimerInit ==
    /\ tm_period \in Periods
    /\ tm_now = 0
    /\ tm_deadline = 0
    /\ tm_first = -1
    /\ tm_last = [at |-> -1, due |-> -1]
    /\ tm_pc = "tick"

TimerIdle ==
    /\ tm_period = 0
    /\ tm_now = 0
    /\ tm_deadline = 0
    /\ tm_first = -1
    /\ tm_last = [at |-> -1, due |-> -1]
    /\ tm_pc = "idle"

\* interval.tick().await with the deadline still ahead: the task sleeps and
\* is woken at the deadline or a little after it.
TimerSleep ==
    /\ tm_pc = "tick"
    /\ tm_now < tm_deadline
    /\ \E lag \in WakeLags :
          /\ tm_deadline + lag <= TimerHorizon
          /\ tm_now' = tm_deadline + lag
    /\ UNCHANGED <<tm_period, tm_deadline, tm_first, tm_last, tm_pc>>
    /\ TimerFrame

\* interval.tick().await with the deadline reached: the tick completes and
\* the Interval reschedules itself.
TimerTick ==
    /\ tm_pc = "tick"
    /\ tm_now >= tm_deadline
    /\ tm_deadline' = SkipNextTimeout(tm_deadline, tm_now, tm_period)
    /\ tm_first' = IF tm_first = -1 THEN tm_now ELSE tm_first
    /\ tm_last' = [at |-> tm_now, due |-> tm_deadline]
    /\ tm_pc' = "body"
    /\ UNCHANGED <<tm_period, tm_now>>
    /\ TimerFrame

\* The loop body: spawn_blocking in loop_blocking, check_all_accounts and the
\* refresh in liquidate_loop.
TimerBody ==
    /\ tm_pc = "body"
    /\ \E d \in BodyDurations :
          /\ tm_now + d <= TimerHorizon
          /\ tm_now' = tm_now + d
    /\ tm_pc' = "tick"
    /\ UNCHANGED <<tm_period, tm_deadline, tm_first, tm_last>>
    /\ TimerFrame

TimerNext ==
    \/ TimerSleep
    \/ TimerTick
    \/ TimerBody

(***************************************************************************)
(* Liquidator: weight_conversion (margin_utils.rs)                         *)
(***************************************************************************)

MfReturnOptions == {"Mf", "Omf", "Imf", "Cmf", "Mmf"}

WeightPositionSamples == {-2 * One, -1, 0, 1, 3 * One}

\* Base weights as get_base_weight_vector makes them: a per-mille u16 / 1000.
BaseWeightSamples == {RatioOf(w, Thousand) : w \in {0, 1, 100, 900, Thousand, 1100, 2000}}

\* unwrapped_div panics on a zero divisor: the branch of a negative spot
\* position in the modes that divide by the base weight.
WeightConversionPanics(return_type, position, base_weight, is_spot) ==
    /\ return_type \notin {"Mf", "Omf"}
    /\ is_spot
    /\ position < 0
    /\ base_weight = 0

WeightInit ==
    /\ wc_type \in MfReturnOptions
    /\ wc_position \in WeightPositionSamples
    /\ wc_weight \in BaseWeightSamples
    /\ wc_spot \in BOOLEAN
    /\ wc_ret = [kind |-> "none", value |-> 0]
    /\ wc_pc = "start"

WeightIdle ==
    /\ wc_type = "none"
    /\ wc_position = 0
    /\ wc_weight = 0
    /\ wc_spot = FALSE
    /\ wc_ret = [kind |-> "none", value |-> 0]
    /\ wc_pc = "idle"

WeightReturns ==
    /\ wc_pc = "start"
    /\ ~WeightConversionPanics(wc_type, wc_position, wc_weight, wc_spot)
    /\ wc_ret' = [kind |-> "value",
                  value |-> WeightConversion(wc_type, wc_position, wc_weight, wc_spot)]
    /\ wc_pc' = "done"
    /\ UNCHANGED <<wc_type, wc_position, wc_weight, wc_spot>>
    /\ WeightFrame

WeightPanic ==
    /\ wc_pc = "start"
    /\ WeightConversionPanics(wc_type, wc_position, wc_weight, wc_spot)
    /\ wc_ret' = [kind |-> "panic", value |-> 0]
    /\ wc_pc' = "done"
    /\ UNCHANGED <<wc_type, wc_position, wc_weight, wc_spot>>
    /\ WeightFrame

WeightNext ==
    \/ WeightReturns
    \/ WeightPanic

(***************************************************************************)
(* The consumer's dispatch: the account lists and the spawned thread       *)
(***************************************************************************)

\* Control keys, named by their rank in the order of the BTreeSet.
ControlKeys == 1..4

\* open_orders_pda and margin_pda: addresses derived from the control.
OpenOrdersPda(control) == 10 + control

MarginPda(control) == 20 + control

\* The pair accounts_table caches for a control.
Derived(control) == [oo |-> OpenOrdersPda(control), margin |-> MarginPda(control)]

\* used_control.into_iter(): the keys in ascending order.
RECURSIVE InOrder(_)
InOrder(set) ==
    IF set = {} THEN <<>>
    ELSE LET least == CHOOSE x \in set : \A y \in set : x <= y IN
         <<least>> \o InOrder(set \ {least})

\* accounts_table.entry(control).or_insert_with(..) over the controls.
Entered(table, used) ==
    [c \in DOMAIN table \cup used |-> IF c \in DOMAIN table THEN table[c] ELSE Derived(c)]

\* A split that keeps the middle element on both sides.
SplitOverlapping(list, mid) ==
    <<SubSeq(list, 1, mid + 1), SubSeq(list, mid + 1, Len(list))>>

\* slice.split_at(mid)
SplitAt(list, mid) ==
    <<SubSeq(list, 1, mid), SubSeq(list, mid + 1, Len(list))>>

NoLists == [controls |-> <<>>, orders |-> <<>>, margins |-> <<>>]

HalvesInit ==
    /\ hv_used \in (SUBSET ControlKeys) \ {{}}
    /\ \E cached \in SUBSET ControlKeys : hv_table = [c \in cached |-> Derived(c)]
    /\ hv_lists = NoLists
    /\ hv_sent = <<>>
    /\ hv_pc = "build"

HalvesIdle ==
    /\ hv_used = {}
    /\ hv_table = <<>>
    /\ hv_lists = NoLists
    /\ hv_sent = <<>>
    /\ hv_pc = "idle"

\* The three lists are pushed control by control, then the thread is spawned.
BuildLists ==
    /\ hv_pc = "build"
    /\ hv_table' = Entered(hv_table, hv_used)
    /\ LET order == InOrder(hv_used) IN
         hv_lists' = [controls |-> order,
                      orders |-> [k \in 1..Len(order) |-> hv_table'[order[k]].oo],
                      margins |-> [k \in 1..Len(order) |-> hv_table'[order[k]].margin]]
    /\ hv_pc' = "consume_events"
    /\ UNCHANGED <<hv_used, hv_sent>>
    /\ HalvesFrame

Mid == Len(hv_lists.controls) \div 2

\* consume_events(st, &market, limit, &control_accounts, &orders_accounts);
\* its result is logged.
SendConsumeEvents ==
    /\ hv_pc = "consume_events"
    /\ \E res \in {"Ok", "Err"} :
         hv_sent' = Append(hv_sent,
             [ix |-> "consume_events", controls |-> hv_lists.controls,
              orders |-> hv_lists.orders, margins |-> <<>>, res |-> res])
    /\ hv_pc' = "crank_pnl_1"
    /\ UNCHANGED <<hv_used, hv_table, hv_lists>>
    /\ HalvesFrame

\* crank_pnl(st, &market, &controls.h, &orders.h, &margins.h)
SendCrankPnl(h, next_pc) ==
    /\ \E res \in {"Ok", "Err"} :
         hv_sent' = Append(hv_sent,
             [ix |-> "crank_pnl", controls |-> SplitAt(hv_lists.controls, Mid)[h],
              orders |-> SplitAt(hv_lists.orders, Mid)[h],
              margins |-> SplitAt(hv_lists.margins, Mid)[h], res |-> res])
    /\ hv_pc' = next_pc
    /\ UNCHANGED <<hv_used, hv_table, hv_lists>>

SendCrankPnlFirst ==
    /\ hv_pc = "crank_pnl_1"
    /\ SendCrankPnl(1, "crank_pnl_2")
    /\ HalvesFrame

SendCrankPnlSecond ==
    /\ hv_pc = "crank_pnl_2"
    /\ SendCrankPnl(2, "done")
    /\ HalvesFrame

HalvesNext ==
    \/ BuildLists
    \/ SendConsumeEvents
    \/ SendCrankPnlFirst
    \/ SendCrankPnlSecond

(***************************************************************************)
(* The liquidator's account mirror: AccountTable::new, refresh_accounts    *)
(* (accounts.rs), start_listener (listener.rs) and the refresh of          *)
(* liquidate_loop (liquidation.rs)                                         *)
(***************************************************************************)

\* Changes of the chain the model follows.
MaxChanges == 2

\* Commands the channel holds in the model.
StreamCap == 1

\* `last_refresh.elapsed().as_secs() > 300`
RefreshAfter == 300

Users == {"u1", "u2"}

\* The keys of a user's accounts.  The Margin's own key falls in another
\* shard than its Control's whenever there is more than one worker.
ControlKeyOf(u) == [i \in 1..KeyLen |-> IF i = 1 THEN (IF u = "u1" THEN 4 ELSE 7) ELSE 0]

MarginKeyOf(u) == [i \in 1..KeyLen |-> IF i = 1 THEN (IF u = "u1" THEN 5 ELSE 6) ELSE 0]

OptsSamples == {[num_workers |-> 1, n |-> 0], [num_workers |-> 2, n |-> 0],
                [num_workers |-> 2, n |-> 1], [num_workers |-> 3, n |-> 1]}

\* is_right_remainder(key, num_workers, n).  With these worker counts the
\* sum of the 32 residues stays below 256, so the u8 accumulator holds the
\* exact sum in every build.
InShard(key, opts) ==
    (ExactSum(key, opts.num_workers, KeyLen) % U8Mod) % opts.num_workers = opts.n

\* The key a Margin is sharded by, were it its own.
MarginOwnKey(key, account) == key

\* The key a Margin is sharded by: `account.control` / `margin_acc.control`.
MarginShardKey(key, account) == account.control

\* What get_accounts returns for the two account types.
ScanMargins(chain) ==
    [k \in {MarginKeyOf(u) : u \in {v \in Users : chain[v].live}} |->
        LET u == CHOOSE v \in Users : MarginKeyOf(v) = k IN
        [control |-> ControlKeyOf(u), authority |-> u, ver |-> chain[u].mver]]

ScanControls(chain) ==
    [k \in {ControlKeyOf(u) : u \in {v \in Users : chain[v].live}} |->
        LET u == CHOOSE v \in Users : ControlKeyOf(v) = k IN
        [authority |-> u, ver |-> chain[u].cver]]

Restrict(f, keys) == [k \in keys |-> f[k]]

\* AccountTable::new: the two filtered scans.
New(opts, payer, chain) ==
    LET margins == ScanMargins(chain)
        controls == ScanControls(chain)
        mkeys == {k \in DOMAIN margins :
                     \/ InShard(MarginShardKey(k, margins[k]), opts)
                     \/ margins[k].authority = payer}
        ckeys == {k \in DOMAIN controls :
                     InShard(k, opts) \/ controls[k].authority = payer}
    IN [margin_table |-> Restrict(margins, mkeys),
        control_table |-> Restrict(controls, ckeys),
        size |-> Cardinality(ckeys)]

\* HashMap::insert
Put(map, key, value) == [k \in DOMAIN map \cup {key} |-> IF k = key THEN value ELSE map[k]]

\* update_control: the size grows when the key is new.
UpdateControl(table, key, account) ==
    [table EXCEPT !.control_table = Put(@, key, account),
                  !.size = IF key \in DOMAIN table.control_table THEN @ ELSE @ + 1]

\* update_margin
UpdateMargin(table, key, account) ==
    [table EXCEPT !.margin_table = Put(@, key, account)]

EmptyTable == [margin_table |-> <<>>, control_table |-> <<>>, size |-> 0]

TableInit ==
    /\ at_opts \in OptsSamples
    /\ at_payer \in Users
    /\ at_chain \in [Users -> [live : BOOLEAN, cver : {0}, mver : {0}]]
    /\ at_changes = 0
    /\ at_stream = <<>>
    /\ at_table = EmptyTable
    /\ at_elapsed = 0
    /\ at_pc = "start"

TableIdle ==
    /\ at_opts = [num_workers |-> 1, n |-> 0]
    /\ at_payer = "none"
    /\ at_chain = <<>>
    /\ at_changes = 0
    /\ at_stream = <<>>
    /\ at_table = EmptyTable
    /\ at_elapsed = 0
    /\ at_pc = "idle"

\* DbWrapper::new: the initial load.
TableNew ==
    /\ at_pc = "start"
    /\ at_table' = New(at_opts, at_payer, at_chain)
    /\ at_pc' = "run"
    /\ UNCHANGED <<at_opts, at_payer, at_chain, at_changes, at_stream, at_elapsed>>
    /\ TableFrame

\* The program changes an account of user u (kind: "Control" or "Margin"),
\* or creates the user's accounts; the subscription delivers the update or
\* loses it.
ChainChange ==
    /\ at_pc = "run"
    /\ at_changes < MaxChanges
    /\ \E u \in Users, kind \in {"Control", "Margin"}, delivered \in BOOLEAN :
         LET after == [live |-> TRUE,
                       cver |-> IF kind = "Control" THEN at_chain[u].cver + 1 ELSE at_chain[u].cver,
                       mver |-> IF kind = "Margin" THEN at_chain[u].mver + 1 ELSE at_chain[u].mver]
             cmd == IF kind = "Control"
                    THEN [kind |-> kind, key |-> ControlKeyOf(u),
                          account |-> [authority |-> u, ver |-> after.cver]]
                    ELSE [kind |-> kind, key |-> MarginKeyOf(u),
                          account |-> [control |-> ControlKeyOf(u), authority |-> u,
                                       ver |-> after.mver]]
         IN /\ at_chain' = [at_chain EXCEPT ![u] = after]
            /\ IF delivered
               THEN /\ Len(at_stream) < StreamCap
                    /\ at_stream' = Append(at_stream, cmd)
               ELSE UNCHANGED at_stream
    /\ at_changes' = at_changes + 1
    /\ UNCHANGED <<at_opts, at_payer, at_table, at_elapsed, at_pc>>
    /\ TableFrame

\* The accounts of a user are closed; no Command comes of it.
ChainClose ==
    /\ at_pc = "run"
    /\ at_changes < MaxChanges
    /\ \E u \in Users :
         /\ at_chain[u].live
         /\ at_chain' = [at_chain EXCEPT ![u].live = FALSE]
    /\ at_changes' = at_changes + 1
    /\ UNCHANGED <<at_opts, at_payer, at_stream, at_table, at_elapsed, at_pc>>
    /\ TableFrame

\* The listener takes the next Command.
Received(kind) ==
    /\ at_pc = "run"
    /\ at_stream # <<>>
    /\ Head(at_stream).kind = kind
    /\ at_stream' = Tail(at_stream)
    /\ UNCHANGED <<at_opts, at_payer, at_chain, at_changes, at_elapsed, at_pc>>

\* Command::ControlChange of a key in the shard: update_control under the lock.
ListenControl ==
    /\ Received("Control")
    /\ InShard(Head(at_stream).key, at_opts)
    /\ at_table' = UpdateControl(at_table, Head(at_stream).key, Head(at_stream).account)
    /\ TableFrame

\* Command::ControlChange of a key outside the shard: `continue`.
ListenControlSkip ==
    /\ Received("Control")
    /\ ~InShard(Head(at_stream).key, at_opts)
    /\ UNCHANGED at_table
    /\ TableFrame

\* Command::MarginChange of a Margin whose control is in the shard.
ListenMargin ==
    /\ Received("Margin")
    /\ InShard(MarginShardKey(Head(at_stream).key, Head(at_stream).account), at_opts)
    /\ at_table' = UpdateMargin(at_table, Head(at_stream).key, Head(at_stream).account)
    /\ TableFrame

\* Command::MarginChange of a Margin whose control is outside the shard.
ListenMarginSkip ==
    /\ Received("Margin")
    /\ ~InShard(MarginShardKey(Head(at_stream).key, Head(at_stream).account), at_opts)
    /\ UNCHANGED at_table
    /\ TableFrame

\* Seconds one pass of liquidate_loop may add to last_refresh.elapsed().
PassSeconds == {100, 201}

Saturated(seconds) == IF seconds > RefreshAfter THEN RefreshAfter + 1 ELSE seconds

\* A pass of liquidate_loop that finds elapsed <= 300 after the check.
LoopPass ==
    /\ at_pc = "run"
    /\ at_elapsed <= RefreshAfter
    /\ \E d \in PassSeconds : at_elapsed' = Saturated(at_elapsed + d)
    /\ UNCHANGED <<at_opts, at_payer, at_chain, at_changes, at_stream, at_table, at_pc>>
    /\ TableFrame

\* A pass that finds elapsed > 300: refresh_accounts replaces the tables
\* and size by those of a new AccountTable; last_refresh = now.
LoopRefresh ==
    /\ at_pc = "run"
    /\ at_elapsed > RefreshAfter
    /\ at_table' = New(at_opts, at_payer, at_chain)
    /\ at_elapsed' = 0
    /\ UNCHANGED <<at_opts, at_payer, at_chain, at_changes, at_stream, at_pc>>
    /\ TableFrame

\* The same pass when a scan fails: get_accounts(..).unwrap() panics inside
\* AccountTable::new, with the lock held.
LoopRefreshPanic ==
    /\ at_pc = "run"
    /\ at_elapsed > RefreshAfter
    /\ at_pc' = "panicked"
    /\ UNCHANGED <<at_opts, at_payer, at_chain, at_changes, at_stream, at_table, at_elapsed>>
    /\ TableFrame

TableNext ==
    \/ TableNew
    \/ ChainChange
    \/ ChainClose
    \/ ListenControl
    \/ ListenControlSkip
    \/ ListenMargin
    \/ ListenMarginSkip
    \/ LoopPass
    \/ LoopRefresh
    \/ LoopRefreshPanic

(***************************************************************************)
(* Crank: the chunked streams of run (crank.rs)                            *)
(***************************************************************************)

CACHE_ORACLE_CHUNK_SIZE == 28

UPDATE_FUNDING_CHUNK_SIZE == 4

\* Longest oracle and market arrays of the model.
MaxOracleCount == 59

MaxMarketCount == 9

\* Entries are named by a positive number; Nil stands for an oracle whose
\* symbol is nil or a market whose dex_market is Pubkey::default(), Luna for
\* the oracle "LUNA" or the market "LUNA-PERP".
Nil == 0

Luna == -1

\* An array of n entries with Luna at place l and Nil at place z (0: nowhere).
ArrayOf(n, l, z) ==
    [i \in 1..n |-> IF i = z THEN Nil ELSE IF i = l THEN Luna ELSE i]

OracleArrays ==
    {ArrayOf(n, l, z) : n \in 0..MaxOracleCount, l \in {0, 1, 29}, z \in {0, 2, 30}}

MarketArrays ==
    {ArrayOf(n, l, z) : n \in 0..MaxMarketCount, l \in {0, 1, 5}, z \in {0, 2, 6}}

RECURSIVE Filtered(_, _)
Filtered(list, drop) ==
    IF list = <<>> THEN <<>>
    ELSE IF Head(list) \in drop THEN Filtered(Tail(list), drop)
    ELSE <<Head(list)>> \o Filtered(Tail(list), drop)

\* iter_oracles() / load_dex_markets(): the entries that are not nil.
Live(list) == Filtered(list, {Nil})

\* .filter(|x| String::from(x.symbol) != "LUNA") / .filter(|(s, _)| s != "LUNA-PERP")
NotLuna(list) == Filtered(list, {Luna})

\* Chunks that share their last entry with the next chunk.
RECURSIVE ChunksOverlapping(_, _)
ChunksOverlapping(list, size) ==
    IF Len(list) <= size THEN (IF list = <<>> THEN <<>> ELSE <<list>>)
    ELSE <<SubSeq(list, 1, size)>> \o ChunksOverlapping(SubSeq(list, size, Len(list)), size)

\* slice.chunks(size)
RECURSIVE Chunks(_, _)
Chunks(list, size) ==
    IF Len(list) <= size THEN (IF list = <<>> THEN <<>> ELSE <<list>>)
    ELSE <<SubSeq(list, 1, size)>> \o Chunks(SubSeq(list, size + 1, Len(list)), size)

ChunkSize(kind) ==
    IF kind = "cache_oracle" THEN CACHE_ORACLE_CHUNK_SIZE ELSE UPDATE_FUNDING_CHUNK_SIZE

ChunksInit ==
    /\ ck_kind \in {"cache_oracle", "update_funding"}
    /\ ck_items \in IF ck_kind = "cache_oracle" THEN OracleArrays ELSE MarketArrays
    /\ ck_tasks = <<>>
    /\ ck_sent = <<>>
    /\ ck_pc = "run"

ChunksIdle ==
    /\ ck_kind = "none"
    /\ ck_items = <<>>
    /\ ck_tasks = <<>>
    /\ ck_sent = <<>>
    /\ ck_pc = "idle"

\* run builds one loop_blocking task per chunk.
CrankRun ==
    /\ ck_pc = "run"
    /\ ck_tasks' = Chunks(NotLuna(Live(ck_items)), ChunkSize(ck_kind))
    /\ ck_sent' = [i \in 1..Len(ck_tasks') |-> <<>>]
    /\ ck_pc' = "ticking"
    /\ UNCHANGED <<ck_kind, ck_items>>
    /\ ChunksFrame

\* st.load_dex_markets()? fails: run returns the error.
CrankRunLoadFail ==
    /\ ck_pc = "run"
    /\ ck_kind = "update_funding"
    /\ Live(ck_items) # <<>>
    /\ ck_pc' = "failed"
    /\ UNCHANGED <<ck_kind, ck_items, ck_tasks, ck_sent>>
    /\ ChunksFrame

\* The tick of task i: one transaction carrying the task's chunk (the
\* symbols of cache_oracle, or one update_perp_funding per market).
CrankTaskTick ==
    /\ ck_pc = "ticking"
    /\ \E i \in 1..Len(ck_tasks) :
         /\ ck_sent[i] = <<>>
         /\ ck_sent' = [ck_sent EXCEPT ![i] = <<ck_tasks[i]>>]
    /\ UNCHANGED <<ck_kind, ck_items, ck_tasks, ck_pc>>
    /\ ChunksFrame

\* Every task has ticked: the next period begins.
CrankNextPeriod ==
    /\ ck_pc = "ticking"
    /\ ck_tasks # <<>>
    /\ \A i \in 1..Len(ck_tasks) : ck_sent[i] # <<>>
    /\ ck_sent' = [i \in 1..Len(ck_tasks) |-> <<>>]
    /\ UNCHANGED <<ck_kind, ck_items, ck_tasks, ck_pc>>
    /\ ChunksFrame

ChunksNext ==
    \/ CrankRun
    \/ CrankRunLoadFail
    \/ CrankTaskTick
    \/ CrankNextPeriod

(***************************************************************************)
(* Crank: one stream of loop_blocking (crank.rs)                           *)
(***************************************************************************)

\* Ticks of one stream followed by the model.
MaxTicks == 4

StreamChunks == {<<1>>, <<1, 2>>, <<1, 2, 3, 4>>}

\* How a job of the blocking pool ends: dispatch logs the signature, logs
\* the error, or req.instructions().unwrap() panics inside the pool thread.
JobEnds == {"ok", "failed", "panicked"}

\* A loop that awaits the handle of spawn_blocking before the next tick.
AwaitsRunning(jobs) == \E j \in 1..Len(jobs) : jobs[j].status = "running"

\* loop_blocking drops the JoinHandle of spawn_blocking: it awaits no job.
AwaitsJob(jobs) == FALSE

\* tokio::task::spawn_blocking(f.clone()): the clone carries the same chunk.
SpawnBlocking(jobs, chunk) == Append(jobs, [chunk |-> chunk, status |-> "running"])

StreamInit ==
    /\ lb_chunk \in StreamChunks
    /\ lb_ticks = 0
    /\ lb_jobs = <<>>
    /\ lb_pc = "looping"

StreamIdle ==
    /\ lb_chunk = <<>>
    /\ lb_ticks = 0
    /\ lb_jobs = <<>>
    /\ lb_pc = "idle"

\* A period of the interval elapses; the loop, unless it is awaiting a job,
\* takes the tick and spawns a job (a tick it cannot take is skipped).
StreamTick ==
    /\ lb_pc = "looping"
    /\ lb_ticks < MaxTicks
    /\ lb_ticks' = lb_ticks + 1
    /\ lb_jobs' = IF AwaitsJob(lb_jobs) THEN lb_jobs ELSE SpawnBlocking(lb_jobs, lb_chunk)
    /\ UNCHANGED <<lb_chunk, lb_pc>>
    /\ StreamFrame

\* A job ends: dispatch returns after info! or warn!, or the job panics.
JobEnd(j, end) ==
    /\ lb_jobs[j].status = "running"
    /\ lb_jobs' = [lb_jobs EXCEPT ![j].status = end]
    /\ UNCHANGED <<lb_chunk, lb_ticks, lb_pc>>
    /\ StreamFrame

JobOk == \E j \in 1..Len(lb_jobs) : JobEnd(j, "ok")

JobFailed == \E j \in 1..Len(lb_jobs) : JobEnd(j, "failed")

JobPanicked == \E j \in 1..Len(lb_jobs) : JobEnd(j, "panicked")

StreamNext ==
    \/ StreamTick
    \/ JobOk
    \/ JobFailed
    \/ JobPanicked

(***************************************************************************)
(* The liquidator: settle_bankruptcy (liquidation.rs)                      *)
(***************************************************************************)

\* Collateral slots of the state in the model (MAX_COLLATERALS in zo_abi).
SettleSlots == 2

\* liqee_margin.collateral[i]: two borrows, nothing, a deposit.
SettleCollaterals == {-3, -1, 0, 2}

\* coin_lot_size of every serum market of the model.
SettleLot == 1

\* What a send of settle_bankruptcy returns in the model: success, an error
\* retry_send gives up on, two it tries again on.
SettleSends ==
    {o \in SendOutcomes :
        \/ o.kind \in {"Ok", "Reqwest", "Other"}
        \/ o.kind = "RpcError" /\ o.code \in {6000, 6017}}

\* The slot is skipped unless the collateral is negative or zero.
SettlesNonPositive(collateral, has_mint) == collateral <= 0 /\ has_mint

\* `if collateral[i] >= zero || mint.eq(&Pubkey::default()) { continue; }`
Settles(collateral, has_mint) == ~(collateral >= 0 \/ ~has_mint)

\* swap::make_swap_ix(.., amount, true, i): the swap instruction.
MakeSwapIx(amount, i) == [ix |-> "swap", amount |-> amount, index |-> i]

\* The instructions of the transaction of slot i: settle_bankruptcy, and
\* the swap when the slot has a serum market and the amount is more than two
\* lots.
SettleInstructions(collateral, serum, i) ==
    LET amount == Abs(collateral[i]) IN
    IF i \in serum /\ ~(amount = 0 \/ amount <= 2 * SettleLot)
    THEN <<[ix |-> "settle_bankruptcy", amount |-> 0, index |-> i], MakeSwapIx(amount, i)>>
    ELSE <<[ix |-> "settle_bankruptcy", amount |-> 0, index |-> i]>>

NoTx == [sends |-> 0, ixs |-> <<>>]

SettleInit ==
    /\ sb_collateral \in [1..SettleSlots -> SettleCollaterals]
    /\ sb_total \in 0..SettleSlots
    /\ sb_serum \in SUBSET (1..SettleSlots)
    /\ sb_i = 1
    /\ sb_attempt = 0
    /\ sb_txs = [i \in 1..SettleSlots |-> NoTx]
    /\ sb_results = <<>>
    /\ sb_ret = "none"
    /\ sb_pc = "loop"

SettleIdle ==
    /\ sb_collateral = <<>>
    /\ sb_total = 0
    /\ sb_serum = {}
    /\ sb_i = 0
    /\ sb_attempt = 0
    /\ sb_txs = <<>>
    /\ sb_results = <<>>
    /\ sb_ret = "none"
    /\ sb_pc = "idle"

HasMint(i) == i <= sb_total

\* The slot does not qualify: continue.
SettleSkip ==
    /\ sb_pc = "loop"
    /\ sb_i <= SettleSlots
    /\ ~Settles(sb_collateral[sb_i], HasMint(sb_i))
    /\ sb_i' = sb_i + 1
    /\ UNCHANGED <<sb_collateral, sb_total, sb_serum, sb_attempt, sb_txs, sb_results, sb_ret, sb_pc>>
    /\ SettleFrame

\* The slot qualifies: the swap is decided and retry_send is called.
SettleBuild ==
    /\ sb_pc = "loop"
    /\ sb_i <= SettleSlots
    /\ Settles(sb_collateral[sb_i], HasMint(sb_i))
    /\ sb_txs' = [sb_txs EXCEPT ![sb_i].ixs = SettleInstructions(sb_collateral, sb_serum, sb_i)]
    /\ sb_attempt' = 0
    /\ sb_pc' = "retry"
    /\ UNCHANGED <<sb_collateral, sb_total, sb_serum, sb_i, sb_results, sb_ret>>
    /\ SettleFrame

\* One iteration of retry_send(.., 5): the request is sent and its result
\* matched; what is not tried again ends the call, and its result is pushed.
SettleSend ==
    /\ sb_pc = "retry"
    /\ sb_attempt < Retries
    /\ \E o \in SettleSends :
         /\ sb_txs' = [sb_txs EXCEPT ![sb_i].sends = @ + 1]
         /\ IF Classify(o) = "continue"
            THEN /\ sb_attempt' = sb_attempt + 1
                 /\ UNCHANGED <<sb_i, sb_results, sb_pc>>
            ELSE /\ sb_results' = Append(sb_results, <<sb_i, Classify(o)>>)
                 /\ sb_i' = sb_i + 1
                 /\ sb_attempt' = 0
                 /\ sb_pc' = "loop"
    /\ UNCHANGED <<sb_collateral, sb_total, sb_serum, sb_ret>>
    /\ SettleFrame

\* retry_send ran out of attempts: Err(TimeoutExceeded) is pushed.
SettleSendExhausted ==
    /\ sb_pc = "retry"
    /\ sb_attempt >= Retries
    /\ sb_results' = Append(sb_results, <<sb_i, "TimeoutExceeded">>)
    /\ sb_i' = sb_i + 1
    /\ sb_attempt' = 0
    /\ sb_pc' = "loop"
    /\ UNCHANGED <<sb_collateral, sb_total, sb_serum, sb_txs, sb_ret>>
    /\ SettleFrame

\* The second loop: the first Err of signature_results returns
\* Err(SettlementFailure); none returns Ok(()).
SettleReturn ==
    /\ sb_pc = "loop"
    /\ sb_i > SettleSlots
    /\ sb_ret' = IF \E k \in 1..Len(sb_results) : sb_results[k][2] # "Ok"
                 THEN "SettlementFailure" ELSE "Ok"
    /\ sb_pc' = "done"
    /\ UNCHANGED <<sb_collateral, sb_total, sb_serum, sb_i, sb_attempt, sb_txs, sb_results>>
    /\ SettleFrame

SettleNext ==
    \/ SettleSkip
    \/ SettleBuild
    \/ SettleSend
    \/ SettleSendExhausted
    \/ SettleReturn

(***************************************************************************)
(* The liquidator: get_pnl_vectors (margin_utils.rs)                       *)
(***************************************************************************)

\* funding_index of the user's slot and of the market (cache.funding_cache).
FundingSamples == {-5, 0, 7}

DecimalSamples == {0, 1}

\* An account with one perp slot whose funding fields are drawn.
PnlAccounts ==
    {[AccountOf(<<0, 0>>, One, <<Thousand, Thousand>>, [supply |-> One, borrow |-> One], p)
        EXCEPT !.funding_index = <<u>>, !.funding_cache = <<c>>, !.asset_decimals = <<d>>] :
        p \in PerpSamples, u \in FundingSamples, c \in FundingSamples, d \in DecimalSamples}

PnlInit ==
    /\ pv_acct \in PnlAccounts
    /\ pv_realized = 0
    /\ pv_unrealized = 0
    /\ pv_pc = "start"

PnlIdle ==
    /\ pv_acct = <<>>
    /\ pv_realized = 0
    /\ pv_unrealized = 0
    /\ pv_pc = "idle"

\* get_pnl_vectors on the account: the entries of its perp slot.
GetPnlVectors ==
    /\ pv_pc = "start"
    /\ pv_realized' = RealizedPnl(pv_acct, 1)
    /\ pv_unrealized' = UnrealizedPnl(pv_acct, 1)
    /\ pv_pc' = "done"
    /\ UNCHANGED pv_acct
    /\ PnlFrame

PnlNext == GetPnlVectors

(***************************************************************************)
(* The liquidator: the amount liquidate_spot_position sends                *)
(***************************************************************************)

\* I80F48::from_str_binary("1.1"): one and a half.
Fudge == One + One \div 2

\* The liquidator's total account value.
SpotTavSamples == {FromNum(-1), 0, FromNum(1), FromNum(50)}

\* to_num::<i64>() of an I80F48: the integer part, rounded down.
ToNumI64(x) == x \div One

\* usdc_amount before the first send.
UsdcAmount(size_estimate, tav) ==
    IF size_estimate.kind = "Some"
    THEN Least(SafeMul(size_estimate.value, Fudge), tav * Leverage)
    ELSE 0

\* liquidate() passes a borrowed asset and a quote held above the dust.
SpotInit ==
    /\ sp_acct \in EstAccountSamples
    /\ sp_asset \in 1..2
    /\ sp_quote \in (1..2) \ {sp_asset}
    /\ sp_acct.collateral[sp_asset] < 0
    /\ sp_acct.collateral[sp_quote] > 0
    /\ sp_tav \in SpotTavSamples
    /\ sp_usdc = 0
    /\ sp_wire = 0
    /\ sp_pc = "start"

SpotIdle ==
    /\ sp_acct = <<>>
    /\ sp_asset = 0
    /\ sp_quote = 0
    /\ sp_tav = 0
    /\ sp_usdc = 0
    /\ sp_wire = 0
    /\ sp_pc = "idle"

SizeEstimate == EstimateSpotLiquidationSize(sp_acct, sp_asset, sp_quote)

\* The estimate is made, usdc_amount computed and liq_ix built.
SpotBuild ==
    /\ sp_pc = "start"
    /\ SizeEstimate.kind # "panic"
    /\ sp_acct.oracle[sp_asset] # 0
    /\ sp_usdc' = UsdcAmount(SizeEstimate, sp_tav)
    /\ sp_wire' = -ToNumI64(UnwrappedDiv(sp_usdc', sp_acct.oracle[sp_asset]))
    /\ sp_pc' = "built"
    /\ UNCHANGED <<sp_acct, sp_asset, sp_quote, sp_tav>>
    /\ SpotFrame

\* An unwrap or a checked operation of the estimate panics.
SpotPanic ==
    /\ sp_pc = "start"
    /\ SizeEstimate.kind = "panic"
    /\ sp_pc' = "panic"
    /\ UNCHANGED <<sp_acct, sp_asset, sp_quote, sp_tav, sp_usdc, sp_wire>>
    /\ SpotFrame

SpotNext ==
    \/ SpotBuild
    \/ SpotPanic

(***************************************************************************)
(* The recorder: listen_logs and listen_event_queue reconnecting           *)
(***************************************************************************)

\* Duration::from_secs(5) of listen_logs' interval.
BackOff == 5

\* Seconds of one subscription the model follows.
SubsHorizon == 12

\* su_gap before the second attempt.
NoGap == SubsHorizon + BackOff + 1

\* How long a connection attempt takes to fail, and a stream to end.
FailAfter == {0, 1}

StreamLasts == {0, 2, 7}

\* MissedTickBehavior::Delay: the tick after one that came late is a period
\* after the late tick; after one on time, a period after its deadline.
DelayNextTimeout(timeout, now, period) ==
    IF now > timeout THEN now + period ELSE timeout + period

SubsInit ==
    /\ su_kind \in {"logs", "event_queue"}
    /\ su_now = 0
    /\ su_deadline = 0
    /\ su_last = -1
    /\ su_gap = NoGap
    /\ su_pc = IF su_kind = "logs" THEN "tick" ELSE "connect"

SubsIdle ==
    /\ su_kind = "none"
    /\ su_now = 0
    /\ su_deadline = 0
    /\ su_last = -1
    /\ su_gap = NoGap
    /\ su_pc = "idle"

\* Where the loop goes after `continue` or the end of the stream: to
\* interval.tick() in listen_logs, straight to the connection in
\* listen_event_queue.
LoopTop(kind) == IF kind = "logs" THEN "tick" ELSE "connect"

\* interval.tick().await of listen_logs returns, at the deadline or at once
\* when the deadline has passed, possibly a second late.
SubsTick ==
    /\ su_pc = "tick"
    /\ su_now <= SubsHorizon
    /\ \E lag \in {0, 1} :
         /\ su_now' = Larger(su_now, su_deadline) + lag
         /\ su_deadline' = DelayNextTimeout(su_deadline, su_now', BackOff)
    /\ su_pc' = "connect"
    /\ UNCHANGED <<su_kind, su_last, su_gap>>
    /\ SubsFrame

\* A connection attempt is made now.
Attempt ==
    /\ su_last' = su_now
    /\ su_gap' = IF su_last = -1 THEN su_gap ELSE Least(su_gap, su_now - su_last)

\* try_connect or the subscribe call fails: warn! and `continue`.
SubsConnectFail ==
    /\ su_pc = "connect"
    /\ su_now <= SubsHorizon
    /\ Attempt
    /\ \E d \in FailAfter : su_now' = su_now + d
    /\ su_pc' = LoopTop(su_kind)
    /\ UNCHANGED <<su_kind, su_deadline>>
    /\ SubsFrame

\* The subscription is established.
SubsConnectOk ==
    /\ su_pc = "connect"
    /\ su_now <= SubsHorizon
    /\ Attempt
    /\ su_pc' = "stream"
    /\ UNCHANGED <<su_kind, su_now, su_deadline>>
    /\ SubsFrame

\* sub.next() yields None: the stream has ended and the loop starts over.
SubsStreamEnd ==
    /\ su_pc = "stream"
    /\ \E d \in StreamLasts : su_now' = su_now + d
    /\ su_pc' = LoopTop(su_kind)
    /\ UNCHANGED <<su_kind, su_deadline, su_last, su_gap>>
    /\ SubsFrame

\* listen_event_queue: an update whose data is not Binary, or not base64,
\* panics in the task of the subscription.
SubsStreamPanic ==
    /\ su_pc = "stream"
    /\ su_kind = "event_queue"
    /\ su_pc' = "panicked"
    /\ UNCHANGED <<su_kind, su_now, su_deadline, su_last, su_gap>>
    /\ SubsFrame

SubsNext ==
    \/ SubsTick
    \/ SubsConnectFail
    \/ SubsConnectOk
    \/ SubsStreamEnd
    \/ SubsStreamPanic

(***************************************************************************)
(* The recorder: poll_logs (recorder.rs)                                   *)
(***************************************************************************)

\* Transactions on the state account the model follows.
MaxTxs == 4

\* `.take(200)`, on the scale of MaxTxs.
PollTake == 2

\* The slot get_account_with_commitment returns at startup.
StartupSlot == 0

NewestSlot(chain) == IF chain = <<>> THEN StartupSlot ELSE chain[Len(chain)].slot

\* The first `take` entries of get_signatures_for_address, which lists the
\* newest transaction first: the places of the newest `take` transactions.
Taken(chain, take) == {k \in 1..Len(chain) : k > Len(chain) - take}

\* .take(200).filter(|sg| sg.err.is_none() && sg.slot > last_slot)
Selected(chain, last_slot, take) ==
    {k \in Taken(chain, take) : ~chain[k].err /\ chain[k].slot > last_slot}

PollInit ==
    /\ pl_chain = <<>>
    /\ pl_last_slot = StartupSlot
    /\ pl_tasks = {}
    /\ pl_processed = {}
    /\ pl_pc = "polling"

PollIdle ==
    /\ pl_chain = <<>>
    /\ pl_last_slot = 0
    /\ pl_tasks = {}
    /\ pl_processed = {}
    /\ pl_pc = "idle"

\* A transaction on the state account is finalized, in the next slot or in
\* the slot of the newest one as long as no poll has seen that slot.
ChainAppend ==
    /\ pl_pc = "polling"
    /\ Len(pl_chain) < MaxTxs
    /\ \E err \in BOOLEAN, slot \in {NewestSlot(pl_chain), NewestSlot(pl_chain) + 1} :
         /\ slot > pl_last_slot
         /\ pl_chain' = Append(pl_chain, [slot |-> slot, err |-> err])
    /\ UNCHANGED <<pl_last_slot, pl_tasks, pl_processed, pl_pc>>
    /\ PollFrame

\* A tick that keeps signatures: last_slot goes to the largest slot kept and
\* one blocking job is spawned per signature.
PollTick ==
    /\ pl_pc = "polling"
    /\ Selected(pl_chain, pl_last_slot, PollTake) # {}
    /\ LET sigs == Selected(pl_chain, pl_last_slot, PollTake) IN
         /\ pl_last_slot' = CHOOSE s \in {pl_chain[k].slot : k \in sigs} :
                               \A k \in sigs : pl_chain[k].slot <= s
         /\ pl_tasks' = pl_tasks \cup sigs
    /\ UNCHANGED <<pl_chain, pl_processed, pl_pc>>
    /\ PollFrame

\* A job gets the transaction and hands its logs to events::process.
FetchOk ==
    /\ \E k \in pl_tasks :
         /\ pl_tasks' = pl_tasks \ {k}
         /\ pl_processed' = pl_processed \cup {k}
    /\ UNCHANGED <<pl_chain, pl_last_slot, pl_pc>>
    /\ PollFrame

\* get_transaction_with_config fails: warn! and return.
FetchErr ==
    /\ \E k \in pl_tasks : pl_tasks' = pl_tasks \ {k}
    /\ UNCHANGED <<pl_chain, pl_last_slot, pl_processed, pl_pc>>
    /\ PollFrame

PollNext ==
    \/ ChainAppend
    \/ PollTick
    \/ FetchOk
    \/ FetchErr

(***************************************************************************)
(* Specifications                                                          *)
(***************************************************************************)

InitShard == ShardInit /\ PerpIdle /\ ConsumerIdle /\ LiqIdle /\ InsertIdle /\ TradeIdle /\ LogsIdle /\ FundingIdle /\ ChooseIdle /\ MfIdle /\ EstimateIdle /\ DispatchIdle /\ TimerIdle /\ WeightIdle /\ HalvesIdle /\ TableIdle /\ ChunksIdle /\ StreamIdle /\ SettleIdle /\ PnlIdle /\ SpotIdle /\ SubsIdle /\ PollIdle

SpecShard == InitShard /\ [][ShardNext]_vars

InitPerp == PerpInit /\ ShardIdle /\ ConsumerIdle /\ LiqIdle /\ InsertIdle /\ TradeIdle /\ LogsIdle /\ FundingIdle /\ ChooseIdle /\ MfIdle /\ EstimateIdle /\ DispatchIdle /\ TimerIdle /\ WeightIdle /\ HalvesIdle /\ TableIdle /\ ChunksIdle /\ StreamIdle /\ SettleIdle /\ PnlIdle /\ SpotIdle /\ SubsIdle /\ PollIdle

InitConsumer == ConsumerInit /\ ShardIdle /\ PerpIdle /\ LiqIdle /\ InsertIdle /\ TradeIdle /\ LogsIdle /\ FundingIdle /\ ChooseIdle /\ MfIdle /\ EstimateIdle /\ DispatchIdle /\ TimerIdle /\ WeightIdle /\ HalvesIdle /\ TableIdle /\ ChunksIdle /\ StreamIdle /\ SettleIdle /\ PnlIdle /\ SpotIdle /\ SubsIdle /\ PollIdle

SpecConsumer == InitConsumer /\ [][ConsumerNext]_vars

SpecPerp == InitPerp /\ [][PerpNext]_vars

InitLiq == LiqInit /\ ShardIdle /\ PerpIdle /\ ConsumerIdle /\ InsertIdle /\ TradeIdle /\ LogsIdle /\ FundingIdle /\ ChooseIdle /\ MfIdle /\ EstimateIdle /\ DispatchIdle /\ TimerIdle /\ WeightIdle /\ HalvesIdle /\ TableIdle /\ ChunksIdle /\ StreamIdle /\ SettleIdle /\ PnlIdle /\ SpotIdle /\ SubsIdle /\ PollIdle

SpecLiq == InitLiq /\ [][LiqNext]_vars

InitInsert == InsertInit /\ ShardIdle /\ PerpIdle /\ ConsumerIdle /\ LiqIdle /\ TradeIdle /\ LogsIdle /\ FundingIdle /\ ChooseIdle /\ MfIdle /\ EstimateIdle /\ DispatchIdle /\ TimerIdle /\ WeightIdle /\ HalvesIdle /\ TableIdle /\ ChunksIdle /\ StreamIdle /\ SettleIdle /\ PnlIdle /\ SpotIdle /\ SubsIdle /\ PollIdle

SpecInsert == InitInsert /\ [][InsertNext]_vars

InitTrade == TradeInit /\ ShardIdle /\ PerpIdle /\ ConsumerIdle /\ LiqIdle /\ InsertIdle /\ LogsIdle /\ FundingIdle /\ ChooseIdle /\ MfIdle /\ EstimateIdle /\ DispatchIdle /\ TimerIdle /\ WeightIdle /\ HalvesIdle /\ TableIdle /\ ChunksIdle /\ StreamIdle /\ SettleIdle /\ PnlIdle /\ SpotIdle /\ SubsIdle /\ PollIdle

SpecTrade == InitTrade /\ [][TradeNext]_vars

InitLogs ==
    /\ LogsInit /\ ShardIdle /\ PerpIdle /\ ConsumerIdle /\ LiqIdle /\ InsertIdle /\ TradeIdle
    /\ FundingIdle /\ ChooseIdle /\ MfIdle /\ EstimateIdle /\ DispatchIdle /\ TimerIdle /\ WeightIdle /\ HalvesIdle /\ TableIdle /\ ChunksIdle /\ StreamIdle /\ SettleIdle /\ PnlIdle /\ SpotIdle /\ SubsIdle /\ PollIdle

SpecLogs == InitLogs /\ [][LogsNext]_vars

InitFunding ==
    /\ FundingInit /\ ShardIdle /\ PerpIdle /\ ConsumerIdle /\ LiqIdle /\ InsertIdle /\ TradeIdle
    /\ LogsIdle /\ ChooseIdle /\ MfIdle /\ EstimateIdle /\ DispatchIdle /\ TimerIdle /\ WeightIdle /\ HalvesIdle /\ TableIdle /\ ChunksIdle /\ StreamIdle /\ SettleIdle /\ PnlIdle /\ SpotIdle /\ SubsIdle /\ PollIdle

SpecFunding == InitFunding /\ [][FundingNext]_vars

InitChoose ==
    /\ ChooseInit
    /\ ShardIdle /\ PerpIdle /\ ConsumerIdle /\ LiqIdle /\ InsertIdle /\ TradeIdle /\ LogsIdle /\ FundingIdle /\ MfIdle /\ EstimateIdle /\ DispatchIdle /\ TimerIdle /\ WeightIdle /\ HalvesIdle /\ TableIdle /\ ChunksIdle /\ StreamIdle /\ SettleIdle /\ PnlIdle /\ SpotIdle /\ SubsIdle /\ PollIdle

SpecChoose == InitChoose /\ [][ChooseNext]_vars

InitMf ==
    /\ MfInit
    /\ ShardIdle /\ PerpIdle /\ ConsumerIdle /\ LiqIdle /\ InsertIdle /\ TradeIdle /\ LogsIdle /\ FundingIdle /\ ChooseIdle /\ EstimateIdle /\ DispatchIdle /\ TimerIdle /\ WeightIdle /\ HalvesIdle /\ TableIdle /\ ChunksIdle /\ StreamIdle /\ SettleIdle /\ PnlIdle /\ SpotIdle /\ SubsIdle /\ PollIdle

SpecMf == InitMf /\ [][MfNext]_vars

InitEstimate ==
    /\ EstimateInit
    /\ ShardIdle /\ PerpIdle /\ ConsumerIdle /\ LiqIdle /\ InsertIdle /\ TradeIdle /\ LogsIdle /\ FundingIdle /\ ChooseIdle /\ MfIdle /\ DispatchIdle /\ TimerIdle /\ WeightIdle /\ HalvesIdle /\ TableIdle /\ ChunksIdle /\ StreamIdle /\ SettleIdle /\ PnlIdle /\ SpotIdle /\ SubsIdle /\ PollIdle

SpecEstimate == InitEstimate /\ [][EstimateNext]_vars

InitDispatch ==
    /\ DispatchInit
    /\ ShardIdle /\ PerpIdle /\ ConsumerIdle /\ LiqIdle /\ InsertIdle /\ TradeIdle /\ LogsIdle /\ FundingIdle /\ ChooseIdle /\ MfIdle /\ EstimateIdle /\ TimerIdle /\ WeightIdle /\ HalvesIdle /\ TableIdle /\ ChunksIdle /\ StreamIdle /\ SettleIdle /\ PnlIdle /\ SpotIdle /\ SubsIdle /\ PollIdle

\* Every step of dispatch is a blocking RPC call that returns or a bounded
\* sleep, run on its own blocking thread: a dispatch under way keeps stepping.
SpecDispatch == InitDispatch /\ [][DispatchNext]_vars /\ WF_vars(DispatchNext)

InitTimer ==
    /\ TimerInit
    /\ ShardIdle /\ PerpIdle /\ ConsumerIdle /\ LiqIdle /\ InsertIdle /\ TradeIdle /\ LogsIdle /\ FundingIdle /\ ChooseIdle /\ MfIdle /\ EstimateIdle /\ DispatchIdle /\ WeightIdle /\ HalvesIdle /\ TableIdle /\ ChunksIdle /\ StreamIdle /\ SettleIdle /\ PnlIdle /\ SpotIdle /\ SubsIdle /\ PollIdle

SpecTimer == InitTimer /\ [][TimerNext]_vars

InitWeight ==
    /\ WeightInit
    /\ ShardIdle /\ PerpIdle /\ ConsumerIdle /\ LiqIdle /\ InsertIdle /\ TradeIdle /\ LogsIdle /\ FundingIdle /\ ChooseIdle /\ MfIdle /\ EstimateIdle /\ DispatchIdle /\ TimerIdle /\ HalvesIdle /\ TableIdle /\ ChunksIdle /\ StreamIdle /\ SettleIdle /\ PnlIdle /\ SpotIdle /\ SubsIdle /\ PollIdle

SpecWeight == InitWeight /\ [][WeightNext]_vars

InitHalves ==
    /\ HalvesInit
    /\ ShardIdle /\ PerpIdle /\ ConsumerIdle /\ LiqIdle /\ InsertIdle /\ TradeIdle /\ LogsIdle /\ FundingIdle /\ ChooseIdle /\ MfIdle /\ EstimateIdle /\ DispatchIdle /\ TimerIdle /\ WeightIdle /\ TableIdle /\ ChunksIdle /\ StreamIdle /\ SettleIdle /\ PnlIdle /\ SpotIdle /\ SubsIdle /\ PollIdle

SpecHalves == InitHalves /\ [][HalvesNext]_vars

InitTable ==
    /\ TableInit
    /\ ShardIdle /\ PerpIdle /\ ConsumerIdle /\ LiqIdle /\ InsertIdle /\ TradeIdle /\ LogsIdle /\ FundingIdle /\ ChooseIdle /\ MfIdle /\ EstimateIdle /\ DispatchIdle /\ TimerIdle /\ WeightIdle /\ HalvesIdle /\ ChunksIdle /\ StreamIdle /\ SettleIdle /\ PnlIdle /\ SpotIdle /\ SubsIdle /\ PollIdle

\* The listener task, the liquidate_loop task and the initial load each keep
\* running while they can take a step.
SpecTable ==
    /\ InitTable
    /\ [][TableNext]_vars
    /\ WF_vars(TableNew)
    /\ WF_vars(ListenControl \/ ListenControlSkip \/ ListenMargin \/ ListenMarginSkip)
    /\ WF_vars(LoopPass \/ LoopRefresh \/ LoopRefreshPanic)

InitChunks ==
    /\ ChunksInit
    /\ ShardIdle /\ PerpIdle /\ ConsumerIdle /\ LiqIdle /\ InsertIdle /\ TradeIdle /\ LogsIdle /\ FundingIdle /\ ChooseIdle /\ MfIdle /\ EstimateIdle /\ DispatchIdle /\ TimerIdle /\ WeightIdle /\ HalvesIdle /\ TableIdle /\ StreamIdle /\ SettleIdle /\ PnlIdle /\ SpotIdle /\ SubsIdle /\ PollIdle

SpecChunks == InitChunks /\ [][ChunksNext]_vars

InitStream ==
    /\ StreamInit
    /\ ShardIdle /\ PerpIdle /\ ConsumerIdle /\ LiqIdle /\ InsertIdle /\ TradeIdle /\ LogsIdle /\ FundingIdle /\ ChooseIdle /\ MfIdle /\ EstimateIdle /\ DispatchIdle /\ TimerIdle /\ WeightIdle /\ HalvesIdle /\ TableIdle /\ ChunksIdle /\ SettleIdle /\ PnlIdle /\ SpotIdle /\ SubsIdle /\ PollIdle

SpecStream == InitStream /\ [][StreamNext]_vars

InitSettle ==
    /\ SettleInit
    /\ ShardIdle /\ PerpIdle /\ ConsumerIdle /\ LiqIdle /\ InsertIdle /\ TradeIdle /\ LogsIdle /\ FundingIdle /\ ChooseIdle /\ MfIdle /\ EstimateIdle /\ DispatchIdle /\ TimerIdle /\ WeightIdle /\ HalvesIdle /\ TableIdle /\ ChunksIdle /\ StreamIdle /\ PnlIdle /\ SpotIdle /\ SubsIdle /\ PollIdle

SpecSettle == InitSettle /\ [][SettleNext]_vars

InitPnl ==
    /\ PnlInit
    /\ ShardIdle /\ PerpIdle /\ ConsumerIdle /\ LiqIdle /\ InsertIdle /\ TradeIdle /\ LogsIdle /\ FundingIdle /\ ChooseIdle /\ MfIdle /\ EstimateIdle /\ DispatchIdle /\ TimerIdle /\ WeightIdle /\ HalvesIdle /\ TableIdle /\ ChunksIdle /\ StreamIdle /\ SettleIdle /\ SpotIdle /\ SubsIdle /\ PollIdle

SpecPnl == InitPnl /\ [][PnlNext]_vars

InitSpot ==
    /\ SpotInit
    /\ ShardIdle /\ PerpIdle /\ ConsumerIdle /\ LiqIdle /\ InsertIdle /\ TradeIdle /\ LogsIdle /\ FundingIdle /\ ChooseIdle /\ MfIdle /\ EstimateIdle /\ DispatchIdle /\ TimerIdle /\ WeightIdle /\ HalvesIdle /\ TableIdle /\ ChunksIdle /\ StreamIdle /\ SettleIdle /\ PnlIdle /\ SubsIdle /\ PollIdle

SpecSpot == InitSpot /\ [][SpotNext]_vars

InitSubs ==
    /\ SubsInit
    /\ ShardIdle /\ PerpIdle /\ ConsumerIdle /\ LiqIdle /\ InsertIdle /\ TradeIdle /\ LogsIdle /\ FundingIdle /\ ChooseIdle /\ MfIdle /\ EstimateIdle /\ DispatchIdle /\ TimerIdle /\ WeightIdle /\ HalvesIdle /\ TableIdle /\ ChunksIdle /\ StreamIdle /\ SettleIdle /\ PnlIdle /\ SpotIdle /\ PollIdle

SpecSubs == InitSubs /\ [][SubsNext]_vars

InitPoll ==
    /\ PollInit
    /\ ShardIdle /\ PerpIdle /\ ConsumerIdle /\ LiqIdle /\ InsertIdle /\ TradeIdle /\ LogsIdle /\ FundingIdle /\ ChooseIdle /\ MfIdle /\ EstimateIdle /\ DispatchIdle /\ TimerIdle /\ WeightIdle /\ HalvesIdle /\ TableIdle /\ ChunksIdle /\ StreamIdle /\ SettleIdle /\ PnlIdle /\ SpotIdle /\ SubsIdle

SpecPoll == InitPoll /\ [][PollNext]_vars

(***************************************************************************)
(* Claims                                                                  *)
(***************************************************************************)

\* This step decides about the Margin that was just evaluated.
Decides == lq_pc = "decide" /\ lq_pc' = "iter"

\* This step spawns a task of the given kind for the evaluated Margin.
Spawns(kind) ==
    /\ Len(lq_handles') = Len(lq_handles) + 1
    /\ lq_handles'[Len(lq_handles')].key = lq_eval.key
    /\ lq_handles'[Len(lq_handles')].kind = kind

\* The Control of the evaluated Margin has an order of non-zero mark value.
EvalHasOrders ==
    \E m \in Markets :
        Larger(lq_eval.control[m].coin_on_asks, lq_eval.control[m].coin_on_bids) * lq_marks[m] # 0

C2_CancelOnlyWithOrders ==
    \A tx \in lq_sent :
        /\ tx.margin.cancel = "false"
        /\ \E m \in Markets : tx.control[m].coin_on_bids > 0 \/ tx.control[m].coin_on_asks > 0
        /\ tx.control[tx.market].coin_on_bids > 0 \/ tx.control[tx.market].coin_on_asks > 0

\* A cancel task sent its transaction for a Margin with resting asks, and
\* another cancel task found no orders and sent nothing.
C2_Witness ==
    /\ \E tx \in lq_sent : tx.control[tx.market].coin_on_asks > 0
    /\ \E i \in 1..Len(lq_handles) :
         /\ lq_handles[i].kind = "cancel"
         /\ lq_handles[i].state = "ok"
         /\ \A tx \in lq_sent : tx.key # lq_handles[i].key

\* C3: for every key and every worker_count N >= 1 the call
\* is_right_remainder(k, N, i) returns true for exactly one i in [0, N).
C3_ExactlyOneShard ==
    sh_pc \in {"done", "panic"} =>
    Cardinality({ i \in 0..(sh_modulus - 1) :
                    IsRightRemainder(sh_key, sh_modulus, i, sh_checks) = "true" }) = 1

\* C4: a finished call returns the unbounded-integer predicate
\* (sum of byte mod N) mod N = worker_index, and the call never overflows.
C4_NoOverflow ==
    /\ sh_pc # "panic"
    /\ sh_pc = "done" =>
         sh_ret = ((ExactSum(sh_key, sh_modulus, KeyLen) % sh_modulus) = sh_remainder)

RECURSIVE Pow2(_)
Pow2(n) == IF n = 0 THEN 1 ELSE 2 * Pow2(n - 1)

\* Every send so far was the only send of its round of the halving loop:
\* each earlier send failed with OverExposure.
OnlyOverExposureSoFar == pp_nsent >= 1 /\ pp_nsent = pp_wire.round + 1

\* C5: while the sends fail with OverExposure the k-th send (k = 1..5) carries
\* floor(initial / 2^(k-1)) lots; after the 5th OverExposure nothing more is
\* sent and LiquidationFailure is returned; a success ends the loop with Ok.
C5_HalvingSchedule ==
    /\ OnlyOverExposureSoFar =>
          LET want == InitialLots(pp_tav, pp_price, pp_lot) \div Pow2(pp_nsent - 1) IN
          /\ pp_nsent <= ReductionMax
          /\ want >= 0
          /\ pp_wire.lots = NatU64(want)
    /\ pp_reduction = ReductionMax => pp_pc \in {"call", "done"}
    /\ (pp_pc = "done" /\ pp_reduction = ReductionMax) => pp_result = "LiquidationFailure"
    /\ (pp_pc = "done" /\ pp_last.kind = "Ok") => pp_result = "Ok"

\* The running retry_send has sent, and the state shows what it did with the result.
AfterSend == pp_pc \in {"retry", "ret"} /\ pp_last.kind \notin {"none", "Ok"}

ReturnedAtOnce(e) == pp_pc = "ret" /\ pp_rs = e

\* The loop went on to the next attempt (and, out of attempts, timed out).
LoopContinued ==
    \/ pp_pc = "retry" /\ pp_attempt >= 1
    \/ pp_pc = "ret" /\ pp_rs = "TimeoutExceeded" /\ pp_attempt = Retries

\* C6 as claimed: 6006, 6016, 6046 return OverExposure at once; 6007, 6011,
\* 6012, 6017, 6052 return Unrecoverable at once; every other RPC error is
\* transient and the loop continues.
C6_OtherRpcErrorTransient ==
    (AfterSend /\ pp_last.kind = "RpcError") =>
        IF pp_last.code \in {6006, 6016, 6046} THEN ReturnedAtOnce("OverExposure")
        ELSE IF pp_last.code \in {6007, 6011, 6012, 6017, 6052} THEN ReturnedAtOnce("Unrecoverable")
        ELSE LoopContinued

\* C6 amended: an RPC error with another custom code, a Reqwest error and a
\* TransactionError are transient; an RPC error without a preflight custom
\* code, and every other kind of Solana client error, return Unrecoverable
\* at once.
C6_Classification ==
    AfterSend =>
        IF pp_last.kind = "RpcError" THEN
            IF pp_last.code \in {6006, 6016, 6046} THEN ReturnedAtOnce("OverExposure")
            ELSE IF pp_last.code \in {6007, 6011, 6012, 6017, 6052} THEN ReturnedAtOnce("Unrecoverable")
            ELSE IF pp_last.code = 0 THEN ReturnedAtOnce("Unrecoverable")
            ELSE LoopContinued
        ELSE IF pp_last.kind \in {"Reqwest", "TransactionError", "NotSolana"} THEN LoopContinued
        ELSE ReturnedAtOnce("Unrecoverable")

\* An RPC error without a custom code ended retry_send on the spot.
C6_Witness ==
    /\ pp_pc = "ret"
    /\ pp_last = [kind |-> "RpcError", code |-> 0]
    /\ pp_rs = "Unrecoverable"
    /\ pp_attempt = 0

\* This step spawns a dispatch thread.
Dispatches == Len(cs_threads') = Len(cs_threads) + 1

\* This step is the end of a consume_events transaction of thread i.
ConsumeEventsEnds(i, how) ==
    /\ i <= Len(cs_threads)
    /\ Len(cs_threads') = Len(cs_threads)
    /\ cs_threads[i].consumed = "pending"
    /\ cs_threads'[i].consumed = how

Advances == cs_last_head' # cs_last_head \/ cs_last_cranked_at' # cs_last_cranked_at

C8_SentinelThenHead ==
    /\ cs_last_head = Sentinel
    /\ [][/\ \A h \in 0..(QueueCap - 1) : U64Less(NatU64(h), Sentinel)
          /\ IF Dispatches THEN cs_last_head' = NatU64(cs_queue.head)
             ELSE cs_last_head' = cs_last_head]_vars

\* After a second dispatch last_head is the head the second tick read, which
\* is not the one the first tick read.
C8_Witness ==
    /\ cs_log = "dispatch"
    /\ Len(cs_threads) = 2
    /\ cs_last_head = NatU64(1)
    /\ cs_queue.head = 1

\* The claimed condition of a dispatch, written on the state the tick reads.
C9_Condition ==
    /\ Len(cs_queue.events) > 0
    /\ \/ cs_now - cs_last_cranked_at >= cs_cfg.max_wait
       \/ /\ NatU64(cs_queue.head) # cs_last_head
          /\ Len(cs_queue.events) >= cs_cfg.max_queue_length

\* C9: a tick that has read the queue and returns dispatches iff the queue
\* is non-empty and (max_wait has elapsed, or the head differs from
\* last_head and there are at least max_queue_length events); otherwise it
\* spawns nothing and leaves last_head and last_cranked_at unchanged.
C9_DispatchDecision ==
    [][(cs_pc = "tick" /\ cs_pc' = "sleep" /\ cs_log' # "fetch_err") =>
          /\ Dispatches <=> C9_Condition
          /\ cs_log' = "dispatch" <=> C9_Condition
          /\ ~C9_Condition => UNCHANGED <<cs_threads, cs_last_head, cs_last_cranked_at>>]_vars

\* A tick skipped a non-empty queue whose head had moved, for being too short
\* and too soon.
C9_Witness ==
    /\ cs_log = "skip_short"
    /\ cs_pc = "sleep"
    /\ cs_queue.events # <<>>
    /\ NatU64(cs_queue.head) # cs_last_head
    /\ cs_last_head # Sentinel

\* The thread this step spawns.
Spawned == cs_threads'[Len(cs_threads')]

\* C10: the control list of a dispatch is strictly ascending by [u64; 4],
\* holds only controls of the queue's events, has at most to_consume
\* entries, and its one consume_events has limit = to_consume.
C10_ControlList ==
    [][Dispatches =>
          /\ \A k \in 1..(Len(Spawned.controls) - 1) :
                WordsLess(CastToU64x4(Spawned.controls[k]), CastToU64x4(Spawned.controls[k + 1]))
          /\ \A k \in 1..Len(Spawned.controls) :
                \E e \in 1..Len(cs_queue.events) : Spawned.controls[k] = Pubkey(cs_queue.events[e])
          /\ Len(Spawned.controls) <= cs_cfg.to_consume
          /\ Spawned.stage = "consume_events"
          /\ Spawned.limit = cs_cfg.to_consume]_vars

\* C11: a tick starts its dispatch only when no thread of an earlier tick
\* is still sending, and last_cranked_at never decreases.
C11_SerialDispatch ==
    [][/\ Dispatches => cs_threads = <<>>
       /\ cs_last_cranked_at' >= cs_last_cranked_at]_vars

\* The documents of the batch that are not duplicates: for every key that
\* the collection does not hold, the first document of the batch with it.
NonDuplicates(coll, xs) ==
    { xs[i] : i \in { j \in 1..Len(xs) :
                        /\ xs[j].key \notin KeysOf(coll)
                        /\ \A k \in 1..(j - 1) : xs[k].key # xs[j].key } }

\* C14: an empty batch returns Ok without a request; when the only write
\* errors are duplicate keys insert returns Ok and the collection holds
\* every non-duplicate document of the batch; a write error of another
\* kind, or a failure that is not a bulk-write error, returns the error.
C14_InsertUnordered ==
    in_pc = "done" =>
        /\ in_xs = <<>> => (in_ret = "Ok" /\ in_calls = <<>> /\ in_coll = in_coll0)
        /\ (in_xs # <<>> /\ in_reply = "normal") =>
              /\ in_ret = "Ok"
              /\ in_coll = in_coll0 \cup NonDuplicates(in_coll0, in_xs)
        /\ (in_xs # <<>> /\ in_reply = "write_error") =>
              /\ in_ret = "Err"
              /\ in_coll = in_coll0 \cup NonDuplicates(in_coll0, SubSeq(in_xs, 2, Len(in_xs)))
        /\ (in_xs # <<>> /\ in_reply \in {"network", "index"}) =>
              (in_ret = "Err" /\ in_coll = in_coll0)

\* A batch of a duplicate followed by a new document returned Ok, and the
\* new document is stored.
C14_Witness ==
    /\ in_pc = "done"
    /\ in_ret = "Ok"
    /\ Len(in_xs) = 2
    /\ in_xs[1].key \in KeysOf(in_coll0)
    /\ in_xs[2] \in in_coll \ in_coll0

\* C12: the stored eventQueue[symbol] never decreases, whatever the
\* interleaving of the Trade::update tasks.
C12_SeqNumMonotone == [][tr_eq' >= tr_eq]_vars

\* Every call so far was made with the same buffer, and one has returned Ok.
SameBufferCalls ==
    /\ \A i, j \in 1..Len(tr_tasks) : tr_tasks[i].buf = tr_tasks[j].buf
    /\ \E i \in 1..Len(tr_tasks) : tr_tasks[i].ret = "Ok"

\* C13: after one successful call on a buffer, and after every further
\* call on the same buffer, trades holds exactly one document per fill
\* sequence number of the buffer and eventQueue[symbol] is the buffer's
\* latest sequence number.
C13_ReplayIdempotent ==
    SameBufferCalls =>
        /\ KeysOf(tr_trades) = BufFills(tr_tasks[1].buf)
        /\ Cardinality(tr_trades) = Cardinality(BufFills(tr_tasks[1].buf))
        /\ tr_eq = tr_tasks[1].buf.seq

\* Two calls on the same buffer of two fills have both returned Ok.
C13_Witness ==
    /\ Len(tr_tasks) = 2
    /\ tr_tasks[1].buf = tr_tasks[2].buf
    /\ tr_tasks[1].ret = "Ok"
    /\ tr_tasks[2].ret = "Ok"
    /\ Cardinality(BufFills(tr_tasks[1].buf)) = 2

\* C15: whatever the interleaving of the two paths on one signature, the
\* collection never holds two documents with one key tuple; once a path
\* has returned, it returned Ok and the collection holds exactly one
\* document for every key tuple of the transaction.
C15_OneDocumentPerKey ==
    /\ \A d, e \in lg_coll : d.key = e.key => d = e
    /\ \A p \in Paths :
         lg_path[p].pc = "done" =>
            /\ lg_path[p].ret = "Ok"
            /\ KeysOf(lg_coll) = { lg_batch[i] : i \in 1..Len(lg_batch) }

\* Both paths have returned; each stored one of the two documents and got
\* a duplicate-key error for the other.
C15_Witness ==
    /\ \A p \in Paths :
         /\ lg_path[p].pc = "done"
         /\ lg_path[p].errors = <<DuplicateKey>>
         /\ \E d \in lg_coll : d.tag = p

\* This step is a tick of poll_update_funding.
FundingTick == fd_log' \in {"load_err", "nothing", "inserted", "insert_err"} /\ fd_markets' = fd_markets

\* C16: a tick puts a symbol in its batch, and writes its document, only
\* if the market's last_updated is strictly above prev[symbol]; after an
\* Ok insert prev[symbol] is the written last_updated for the batch's
\* symbols and unchanged for the others; after a failed insert prev is
\* unchanged.
C16_FundingStrictlyNewer ==
    [][FundingTick =>
          /\ \A k \in 1..Len(fd_batch') : fd_markets[fd_batch'[k]] > fd_prev[fd_batch'[k]]
          /\ \A d \in fd_funding' \ fd_funding :
                /\ d.key[2] = fd_markets[d.key[1]]
                /\ d.key[2] > fd_prev[d.key[1]]
          /\ fd_log' = "inserted" =>
                \A sym \in SymbolSet :
                    fd_prev'[sym] = IF fd_markets[sym] > fd_prev[sym]
                                    THEN fd_markets[sym] ELSE fd_prev[sym]
          /\ fd_log' # "inserted" => fd_prev' = fd_prev]_vars

\* X was written at 1 in one tick; a later tick wrote only Y at 2.
C16_Witness ==
    /\ fd_log = "inserted"
    /\ fd_batch = <<"Y">>
    /\ fd_prev = [sym \in SymbolSet |-> IF sym = "X" THEN 1 ELSE 2]
    /\ KeysOf(fd_funding) = {<<"X", 1>>, <<"Y", 2>>}

\* C17: whatever the remote answers, the consumer's worker logs and goes on
\* to its next tick: it never panics.
C17_NoPanic == cs_pc # "panicked" /\ cs_log # "panic"

\* This step is a task sending: a cancel task sends its transaction, or a
\* liquidate task runs liquidate() to its end.
TaskSends ==
    \/ lq_sent' # lq_sent
    \/ \E i \in 1..Len(lq_handles) :
         /\ lq_handles[i].kind = "liquidate"
         /\ lq_handles[i].state = "running"
         /\ lq_handles'[i].state # "running"

\* C18: the AccountTable lock is not held while a liquidation or cancel
\* transaction is being sent.
C18_LockFreeWhileSending == [][TaskSends => ~lq_lock]_vars

\* The account liquidate() works on is one the evaluation pass hands to it:
\* Maintenance is not satisfied and is_liquidatable says `liquidate`.
HandedToLiquidate ==
    IsLiquidatable([cancel |-> "true", maint |-> "false"], ch_marks, ch_control).liquidate

\* C19: for every liquidatable Margin handed to liquidate(), exactly one of
\* the four actions (liquidate_perp_position, settle_bankruptcy,
\* liquidate_spot_position, force-cancel of open orders) has been called when
\* liquidate() returns: never none and never more than one.  Stated for the
\* accounts that hold a collateral, which leaves Err(NoCollateral) aside, and
\* a position, whose unrealized loss can fail Maintenance whatever the
\* collateral is.
C19_ExactlyOneAction ==
    (/\ ch_pc = "done"
     /\ HandedToLiquidate
     /\ ch_colls # <<>>
     /\ LargestPosition(ch_pos, ch_marks) # 0) => Len(ch_actions) = 1

\* mf and mmf of check_mf(Maintenance).
MaintMf(a) == MfOf("Mf", "Maintenance", a)

MaintMmf(a) == MfOf("Mmf", "Maintenance", a)

\* The account is on the boundary: mf equals mmf * tolerance, the product
\* as check_mf computes it.
OnBoundary(a, tolerance) ==
    /\ CheckMf("Maintenance", a, tolerance) # "panic"
    /\ MaintMf(a) = SafeMul(MaintMmf(a), tolerance)

\* What one small unit of collateral i is worth in mf: its price times the
\* supply multiplier times its weight.
UnitValue(a, i) ==
    LET position == GetPositionVector(a) IN
    SafeMul(GetPriceVector(a, position)[i],
            WeightConversion("Mf", position[i], GetBaseWeightVector(a)[i], TRUE))

\* A Maintenance check_mf returns.
MaintenanceChecked == mf_pc = "start" /\ mf_pc' = "checked" /\ mf_check' = "Maintenance"

\* Collateral i of a boundary account that passed Maintenance goes down by one.
BoundaryLowered(i) ==
    /\ mf_pc = "checked" /\ mf_pc' = "lowered"
    /\ mf_check = "Maintenance"
    /\ mf_lowered' = i
    /\ OnBoundary(mf_acct, mf_tol)

\* C20 as the spec states it: check_mf(Maintenance) is satisfied exactly when
\* mf >= mmf * tau, a boundary account is satisfied, and lowering a positive
\* collateral balance of a boundary account by one small unit makes the
\* check not satisfied.
C20_UnitBelowBoundaryFails ==
    [][/\ (MaintenanceChecked /\ mf_ok' # "panic")
            => (mf_ok' = "true" <=> MaintMf(mf_acct) >= SafeMul(MaintMmf(mf_acct), mf_tol))
       /\ \A i \in 1..NCollOf(mf_acct) : BoundaryLowered(i) => (mf_ok = "true" /\ mf_ok' = "false")]_vars

\* C20: check_mf(Maintenance) is satisfied exactly when mf >= mmf * tau, the
\* product rounded down to an I80F48; a boundary account is satisfied; and
\* lowering a positive collateral balance of a boundary account by one small
\* unit makes the check not satisfied exactly when a unit of that collateral
\* has a positive weighted price.
C20_MaintenanceBoundary ==
    [][/\ (MaintenanceChecked /\ mf_ok' # "panic")
            => (mf_ok' = "true" <=> MaintMf(mf_acct) >= SafeMul(MaintMmf(mf_acct), mf_tol))
       /\ \A i \in 1..NCollOf(mf_acct) :
             BoundaryLowered(i)
                 => /\ mf_ok = "true"
                    /\ mf_ok' = "false" <=> UnitValue(mf_acct, i) > 0]_vars

\* A boundary account with a position passed Maintenance, one unit of a
\* collateral was taken away, and the check now fails.
C20_Witness ==
    /\ mf_pc = "lowered"
    /\ mf_check = "Maintenance"
    /\ mf_ok = "false"
    /\ mf_acct.pos_size[1] # 0
    /\ mf_tol < One
    /\ OnBoundary([mf_acct EXCEPT !.collateral[mf_lowered] = @ + 1], mf_tol)

\* The call has returned and had a denominator.
EstimateDone == es_pc = "done" /\ es_ret.kind # "panic"

\* C21: estimate_spot_liquidation_size returns None whenever the absolute
\* value of the denominator is below the threshold, for every value and sign
\* of the numerator.
C21_SmallDenominatorNoTrade ==
    (EstimateDone /\ Abs(Denom(es_acct, es_asset, es_quote)) < DenomThreshold)
        => es_ret.kind = "None"

\* A denominator below the threshold and not zero, under a numerator of the
\* same sign: the quotient is positive, and still no trade is returned.
C21_Witness ==
    /\ EstimateDone
    /\ Abs(Denom(es_acct, es_asset, es_quote)) < DenomThreshold
    /\ Denom(es_acct, es_asset, es_quote) * EstNumerator(es_acct) > 0
    /\ es_ret.kind = "None"

\* get_mf in mode Mf as check_mf(Maintenance) calls it, and in mode Omf as
\* check_mf(Cancel) calls it.
PlainMf(a) == MfOf("Mf", "Maintenance", a)

OpenMf(a) == MfOf("Omf", "Cancel", a)

\* A collateral balance of the Margin goes up.
Raised == mf_pc = "start" /\ mf_pc' = "raised"

\* C22: for fixed prices, multipliers, base weights, Control and other
\* balances, increasing one collateral balance by a positive amount never
\* decreases get_mf for mode Mf nor for mode Omf, including when the balance
\* changes sign from negative to non-negative.
C22_MoreCollateralNoLessMf ==
    [][Raised => /\ PlainMf(mf_acct') >= PlainMf(mf_acct)
                 /\ OpenMf(mf_acct') >= OpenMf(mf_acct)]_vars

\* The Control has no open orders in any market.
AtRest(a) == \A m \in 1..NPerpOf(a) : a.coin_on_bids[m] = 0 /\ a.coin_on_asks[m] = 0

\* check_mf(Cancel) has returned on an account at rest.
CancelChecked == mf_pc = "checked" /\ mf_check = "Cancel" /\ AtRest(mf_acct)

\* C23 as the spec states it: for every account whose Control has
\* coin_on_bids = coin_on_asks = 0 in every market, check_mf(Cancel) and
\* check_mf(Maintenance) return the same result for the same tolerance.
C23_CancelSameAsMaintenance ==
    CancelChecked => mf_ok = CheckMf("Maintenance", mf_acct, mf_tol)

\* The account has no perp position and no borrowed collateral.
NothingAtRisk(a) ==
    /\ \A m \in 1..NPerpOf(a) : a.pos_size[m] = 0
    /\ \A i \in 1..NCollOf(a) : a.collateral[i] >= 0

\* C23: for every account whose Control has no open orders, check_mf(Cancel)
\* and check_mf(Maintenance) return the same result when the account has no
\* perp position and no borrowed collateral; and when collateral 0 is not
\* borrowed or the total realized pnl is not positive, an account that
\* satisfies Cancel satisfies Maintenance.
C23_CancelImpliesMaintenance ==
    CancelChecked =>
        /\ NothingAtRisk(mf_acct) => mf_ok = CheckMf("Maintenance", mf_acct, mf_tol)
        /\ (/\ mf_ok = "true"
            /\ mf_acct.collateral[1] >= 0 \/ TotalRealizedPnl(mf_acct) <= 0)
               => CheckMf("Maintenance", mf_acct, mf_tol) = "true"

\* An account at rest with a perp position and a borrowed collateral passes
\* Cancel and Maintenance under a tolerance below one.
C23_Witness ==
    /\ CancelChecked
    /\ mf_ok = "true"
    /\ CheckMf("Maintenance", mf_acct, mf_tol) = "true"
    /\ mf_acct.pos_size[1] # 0
    /\ mf_acct.collateral[2] < 0
    /\ mf_tol < One

DispatchDone == dp_pc = "done"

Polls == Len(dp_statuses)

\* Every poll before the last one answered None.
EarlierPollsNone ==
    \A i \in 1..(Polls - 1) : dp_statuses[i] = "None"

LastStatus == IF Polls = 0 THEN "none" ELSE dp_statuses[Polls]

\* C24 as stated: dispatch ends after at most 25 polls in one of three
\* outcomes: success on the first confirmed status without error, the
\* execution error when the status carries one, ConfirmationTimeout(signature)
\* otherwise.
C24_ThreeOutcomes ==
    DispatchDone =>
        /\ Polls <= GET_STATUS_RETRIES
        /\ EarlierPollsNone
        /\ dp_ret = CASE LastStatus = "SomeOk" -> [kind |-> "Ok", sg |-> dp_sg]
                      [] LastStatus = "SomeErr" -> [kind |-> "TransactionError", sg |-> 0]
                      [] OTHER -> [kind |-> "ConfirmationTimeout", sg |-> dp_sg]

\* An RPC call of dispatch failed: the blockhash fetch, the send, a status
\* poll, or the blockhash validity check that follows a None status.
ClientFailed ==
    \/ dp_bh = 0
    \/ dp_sg = 0
    \/ LastStatus = "RpcErr"
    \/ dp_valid = "error"

\* C24: every dispatch ends, after at most 25 polls, in exactly one of four
\* outcomes: the client's error when an RPC call itself failed; otherwise
\* success on the first poll with a confirmed status without error, the
\* execution error when that status carries one, and
\* ConfirmationTimeout(signature) when all 25 polls answered None or the
\* blockhash went invalid after a None.
C24_DispatchOutcomes ==
    /\ [](DispatchDone =>
            /\ Polls <= GET_STATUS_RETRIES
            /\ EarlierPollsNone
            /\ dp_ret = CASE ClientFailed -> [kind |-> "ClientError", sg |-> 0]
                          [] LastStatus = "SomeOk" -> [kind |-> "Ok", sg |-> dp_sg]
                          [] LastStatus = "SomeErr" -> [kind |-> "TransactionError", sg |-> 0]
                          [] OTHER -> [kind |-> "ConfirmationTimeout", sg |-> dp_sg])
    /\ (dp_pc = "blockhash" ~> DispatchDone)

\* The poll loop left early on an invalid blockhash, after some None polls,
\* and dispatch ended in ConfirmationTimeout.
C24_Witness ==
    /\ DispatchDone
    /\ Polls \in 2..(GET_STATUS_RETRIES - 1)
    /\ dp_valid = "false"
    /\ dp_ret.kind = "ConfirmationTimeout"

Ticked == tm_pc = "tick" /\ tm_pc' = "body"

\* A deadline of the Interval lies on the grid start + k * period (start = 0).
OnGrid(t) == t % tm_period = 0

\* C25: the first tick fires at once, and a tick that completes after one or
\* more periods were missed fires once: the next tick is due at the next
\* period boundary after it, never at an instant already past.
C25_SkipOnLag ==
    [][Ticked =>
          /\ tm_first' = 0
          /\ tm_deadline' > tm_now'
          /\ tm_deadline' - tm_now' <= tm_period
          /\ OnGrid(tm_deadline')]_vars

\* A tick completed after the body overran two periods or more, and the next
\* one is due at the next boundary.
C25_Witness ==
    /\ tm_pc = "body"
    /\ tm_last.at >= tm_last.due + 2 * tm_period
    /\ tm_deadline > tm_now

ImfDone == wc_pc = "done" /\ wc_type = "Imf"

\* SPOT_INITIAL as an I80F48: 1_100_000 / 1_000_000.
SpotInitial == (SPOT_INITIAL_MARGIN_REQ * One) \div Million

\* The weight the spec's table gives in mode Imf.
ImfTable(position, w, is_spot) ==
    CASE is_spot /\ position >= 0 -> 0
      [] is_spot /\ position < 0 -> -(TruncDiv(SpotInitial * One, w) - One)
      [] ~is_spot /\ position >= 0 -> w
      [] ~is_spot /\ position < 0 -> -w

\* C26 as stated: in mode Imf weight_conversion returns the table's weight
\* for every position and base weight.
C26_ImfEveryWeight ==
    ImfDone =>
        /\ wc_ret.kind = "value"
        /\ wc_ret.value = ImfTable(wc_position, wc_weight, wc_spot)

\* C26: in mode Imf weight_conversion returns 0 for a non-negative spot
\* position, -(SPOT_INITIAL/w - 1) for a negative spot position of base
\* weight w # 0, +w for a non-negative and -w for a negative perp position;
\* for a negative spot position of base weight 0 it panics.
C26_ImfWeights ==
    ImfDone =>
        IF wc_spot /\ wc_position < 0 /\ wc_weight = 0
        THEN wc_ret.kind = "panic"
        ELSE /\ wc_ret.kind = "value"
             /\ wc_ret.value = ImfTable(wc_position, wc_weight, wc_spot)

\* The case of the repository's test: a borrowed collateral of weight 0.9.
C26_Witness ==
    /\ ImfDone
    /\ wc_spot
    /\ wc_position < 0
    /\ wc_weight = RatioOf(900, Thousand)
    /\ wc_ret = [kind |-> "value", value |-> -(TruncDiv(SpotInitial * One, wc_weight) - One)]

Elements(list) == {list[k] : k \in 1..Len(list)}

\* The lists of an instruction name, index by index, the accounts of one control.
Aligned(sent) ==
    /\ Len(sent.orders) = Len(sent.controls)
    /\ Len(sent.margins) = Len(sent.controls)
    /\ \A k \in 1..Len(sent.controls) :
          /\ sent.orders[k] = OpenOrdersPda(sent.controls[k])
          /\ sent.margins[k] = MarginPda(sent.controls[k])

\* C27: the thread sends consume_events, then crank_pnl on the first half,
\* then crank_pnl on the second half; the halves are disjoint, together hold
\* every control of the consume_events list exactly once, and their control,
\* open-orders and margin lists are index-aligned.
C27_HalvesInOrder ==
    /\ Len(hv_sent) >= 1 =>
          /\ hv_sent[1].ix = "consume_events"
          /\ Elements(hv_sent[1].controls) = hv_used
          /\ Len(hv_sent[1].controls) = Cardinality(hv_used)
    /\ \A n \in 2..Len(hv_sent) : hv_sent[n].ix = "crank_pnl" /\ Aligned(hv_sent[n])
    /\ Len(hv_sent) >= 2 =>
          hv_sent[2].controls = SubSeq(hv_sent[1].controls, 1, Len(hv_sent[1].controls) \div 2)
    /\ hv_pc = "done" =>
          /\ Len(hv_sent) = 3
          /\ Elements(hv_sent[2].controls) \cap Elements(hv_sent[3].controls) = {}
          /\ hv_sent[2].controls \o hv_sent[3].controls = hv_sent[1].controls
          /\ hv_sent[2].orders \o hv_sent[3].orders = hv_sent[1].orders

\* A dispatch of three controls whose consume_events failed has sent all
\* three instructions: halves of one and two controls.
C27_Witness ==
    /\ hv_pc = "done"
    /\ Cardinality(hv_used) = 3
    /\ Len(hv_sent[2].controls) = 1
    /\ Len(hv_sent[3].controls) = 2
    /\ hv_sent[1].res = "Err"

\* Task i's update_one succeeded in this step.
EqWritten(i) ==
    /\ tr_tasks[i].pc = "update_one"
    /\ tr_tasks'[i].pc = "done"
    /\ tr_tasks'[i].ret = "Ok"

\* Task i's insert returned an error in this step.
InsertFailed(i) ==
    /\ tr_tasks[i].pc = "insert"
    /\ tr_tasks'[i].pc = "done"

\* The fills task i had to record: those of its buffer after the sequence
\* number it read.
FillsOfCall(i) == { q \in BufFills(tr_tasks[i].buf) : q > tr_tasks[i].last_seq_num }

\* C28: eventQueue[symbol] is written only by a call whose insert returned
\* success, with a document of every fill of that call in the trades
\* collection; a call whose insert returns an error leaves it unchanged.
C28_SeqNumAfterInsert ==
    [][/\ tr_eq' # tr_eq => \E i \in 1..Len(tr_tasks) : EqWritten(i)
       /\ \A i \in 1..Len(tr_tasks) :
             /\ EqWritten(i) => FillsOfCall(i) \subseteq KeysOf(tr_trades)
             /\ InsertFailed(i) => tr_eq' = tr_eq]_vars

\* A call on a buffer with two fills whose insert failed on its first
\* document: the second is stored, and the stored sequence number is still
\* the one the call read.
C28_Witness ==
    /\ tr_fills = {1, 2}
    /\ tr_eq = 0
    /\ \E i \in 1..Len(tr_tasks) :
          /\ tr_tasks[i].pc = "done"
          /\ tr_tasks[i].ret = "Err"
          /\ tr_tasks[i].buf.seq = 2
          /\ tr_trades = {[key |-> 2, tag |-> TaskTag(i)]}

TableLoaded == at_pc \in {"run", "panicked"}

\* The shard predicate for (worker_index, worker_count) = (n, num_workers).
ShardHolds(key) == InShard(key, at_opts)

\* C29 as stated: every key of control_table and every control_key of a
\* Margin of margin_table satisfies the shard predicate.
C29_TablesWithinShard ==
    TableLoaded =>
        /\ \A k \in DOMAIN at_table.control_table : ShardHolds(k)
        /\ \A k \in DOMAIN at_table.margin_table : ShardHolds(at_table.margin_table[k].control)

\* A streamed update that falls outside the shard is taken off the channel.
OutsideUpdateTaken ==
    /\ at_stream # <<>>
    /\ at_stream' = Tail(at_stream)
    /\ ~ShardHolds(IF Head(at_stream).kind = "Control"
                   THEN Head(at_stream).key
                   ELSE Head(at_stream).account.control)

\* C29: after the initial load, stream updates and refreshes, every key of
\* control_table satisfies the shard predicate or is the key of a Control
\* whose authority is the payer, and every Margin of margin_table has a
\* control_key that satisfies it or has the payer for authority; a streamed
\* update outside the shard leaves margin_table, control_table and size
\* unchanged.
C29_TablesWithinShardOrPayer ==
    /\ [](TableLoaded =>
            /\ \A k \in DOMAIN at_table.control_table :
                  ShardHolds(k) \/ at_table.control_table[k].authority = at_payer
            /\ \A k \in DOMAIN at_table.margin_table :
                  \/ ShardHolds(at_table.margin_table[k].control)
                  \/ at_table.margin_table[k].authority = at_payer)
    /\ [][OutsideUpdateTaken => at_table' = at_table]_vars

\* The payer's accounts are outside the shard and in the tables, another
\* user's are outside and not in them, a Margin is held whose own key is
\* outside the shard, and the chain has changed and the channel is drained.
C29_Witness ==
    /\ at_pc = "run"
    /\ at_changes > 0
    /\ at_stream = <<>>
    /\ ~ShardHolds(ControlKeyOf(at_payer))
    /\ ControlKeyOf(at_payer) \in DOMAIN at_table.control_table
    /\ \E k \in DOMAIN at_table.margin_table :
          ShardHolds(at_table.margin_table[k].control) /\ ~ShardHolds(k)

\* The tables are those a scan of the chain gives now.
Healed == at_table = New(at_opts, at_payer, at_chain)

\* C30: once the chain has stopped changing the table comes to hold the
\* on-chain value of every account it is to hold, and keeps it: the refresh
\* past 300 s heals what the stream lost.
C30_EventuallyHealed == <>[]Healed

\* Every task has sent the transaction of this tick.
TickComplete ==
    /\ ck_pc = "ticking"
    /\ \A i \in 1..Len(ck_tasks) : ck_sent[i] # <<>>

\* How many transactions of the tick carry the entry.
Carriers(entry) ==
    Cardinality({<<i, k>> \in (1..Len(ck_sent)) \X (1..ChunkSize(ck_kind)) :
                   /\ k <= Len(ck_sent[i][1])
                   /\ ck_sent[i][1][k] = entry})

EntriesOf(list) == {list[k] : k \in 1..Len(list)}

NoChunkTooLong ==
    \A i \in 1..Len(ck_sent) :
        /\ Len(ck_sent[i]) = 1
        /\ Len(ck_sent[i][1]) \in 1..ChunkSize(ck_kind)

\* C31 as stated: every non-nil oracle is carried by exactly one chunk
\* transaction per tick and every live market gets exactly one
\* update_perp_funding, in chunks of at most 28 symbols and 4 instructions.
C31_EveryLiveEntryOnce ==
    TickComplete =>
        /\ NoChunkTooLong
        /\ \A e \in EntriesOf(ck_items) \ {Nil} : Carriers(e) = 1

\* C31: every non-nil oracle other than "LUNA" is carried by exactly one
\* chunk transaction per tick and every live market other than "LUNA-PERP"
\* gets exactly one update_perp_funding; "LUNA", "LUNA-PERP" and the nil
\* entries are carried by none; no chunk is empty or longer than 28 symbols
\* (4 instructions).
C31_ChunksPartition ==
    TickComplete =>
        /\ NoChunkTooLong
        /\ \A e \in EntriesOf(ck_items) \ {Nil, Luna} : Carriers(e) = 1
        /\ Carriers(Luna) = 0
        /\ Carriers(Nil) = 0

\* A tick of three cache_oracle tasks over an array that holds "LUNA" and a
\* nil oracle: two full chunks and a shorter one.
C31_Witness ==
    /\ TickComplete
    /\ ck_kind = "cache_oracle"
    /\ Luna \in EntriesOf(ck_items)
    /\ Nil \in EntriesOf(ck_items)
    /\ Len(ck_tasks) = 3
    /\ Len(ck_sent[2][1]) = CACHE_ORACLE_CHUNK_SIZE

\* One job per tick, each carrying the whole chunk of the stream.
JobPerTick ==
    /\ Len(lb_jobs) = lb_ticks
    /\ \A j \in 1..Len(lb_jobs) : lb_jobs[j].chunk = lb_chunk

\* A step that ends a job touches that job's status only.
JobEndStep ==
    (lb_ticks' = lb_ticks) =>
        /\ lb_chunk' = lb_chunk
        /\ Len(lb_jobs') = Len(lb_jobs)
        /\ \A j \in 1..Len(lb_jobs) : lb_jobs'[j].chunk = lb_jobs[j].chunk

\* A tick is taken whatever the earlier jobs are doing: it adds one job,
\* for the whole chunk, and leaves the earlier jobs as they are.
TickStep ==
    (lb_ticks' = lb_ticks + 1) =>
        /\ Len(lb_jobs') = Len(lb_jobs) + 1
        /\ lb_jobs'[Len(lb_jobs')] = [chunk |-> lb_chunk, status |-> "running"]
        /\ SubSeq(lb_jobs', 1, Len(lb_jobs)) = lb_jobs

\* C32: a crank stream issues one job on every tick whether earlier jobs of
\* the stream failed, panicked or are still running; a job that ends changes
\* nothing but its own status, and every job covers the stream's full chunk.
C32_FireAndForget ==
    /\ [](lb_pc = "looping" => JobPerTick)
    /\ [][lb_pc = "looping" => (JobEndStep /\ TickStep)]_vars

\* The fourth job has been issued while the first is still running, the
\* second has failed and the third has panicked.
C32_Witness ==
    /\ lb_ticks = 4
    /\ Len(lb_jobs) = 4
    /\ Len(lb_chunk) = 4
    /\ lb_jobs[1].status = "running"
    /\ lb_jobs[2].status = "failed"
    /\ lb_jobs[3].status = "panicked"
    /\ lb_jobs[4].chunk = lb_chunk

\* The largest absolute position notional of the account.
MaxNotional ==
    CHOOSE v \in {Abs(Notional(ch_pos, ch_marks, m)) : m \in Markets} :
        \A m \in Markets : Abs(Notional(ch_pos, ch_marks, m)) <= v

PerpCalled ==
    /\ Len(ch_actions) = 1
    /\ ch_actions[1].name = "liquidate_perp_position"

\* |min_col| <= max_position_notional, or the account is spot-bankrupt.
PerpDominant ==
    \/ Abs(ch_colls[MinCol(ch_colls)]) <= MaxNotional
    \/ IsSpotBankrupt(ch_colls)

ChoiceMade == ch_pc = "done" /\ ch_colls # <<>>

\* C33 as stated: liquidate_perp_position is executed, on the market of the
\* largest absolute notional, exactly when |min_col| is at most that notional
\* or the account is spot-bankrupt.
C33_PerpWhenDominant ==
    ChoiceMade =>
        /\ PerpCalled <=> PerpDominant
        /\ PerpCalled => Abs(Notional(ch_pos, ch_marks, ch_actions[1].position_index)) = MaxNotional

\* C33: liquidate_perp_position is executed, on a market of the largest
\* absolute notional, exactly when the account holds a position of non-zero
\* notional and |min_col| is at most the largest notional or the account is
\* spot-bankrupt; an account without such a position never gets the call.
C33_PerpWhenDominantAndOpen ==
    ChoiceMade =>
        /\ PerpCalled <=> (MaxNotional > 0 /\ PerpDominant)
        /\ PerpCalled =>
              /\ ch_actions[1].position_index \in Markets
              /\ Abs(Notional(ch_pos, ch_marks, ch_actions[1].position_index)) = MaxNotional

\* liquidate_perp_position called on the second market, which holds the
\* largest notional, for an account that is spot-bankrupt with a borrow
\* larger than that notional, the first market holding a smaller position.
C33_Witness ==
    /\ ChoiceMade
    /\ PerpCalled
    /\ ch_actions[1].position_index = 2
    /\ Notional(ch_pos, ch_marks, 1) # 0
    /\ Abs(Notional(ch_pos, ch_marks, 1)) < Abs(Notional(ch_pos, ch_marks, 2))
    /\ IsSpotBankrupt(ch_colls)

\* The retry_send calls made for slot i, and those that failed.
CallsFor(i) == {k \in 1..Len(sb_results) : sb_results[k][1] = i}

FailedCalls == {k \in 1..Len(sb_results) : sb_results[k][2] # "Ok"}

SettledOnce ==
    sb_pc = "done" =>
        /\ \A i \in 1..SettleSlots :
             IF sb_collateral[i] < 0 /\ HasMint(i)
             THEN /\ Cardinality(CallsFor(i)) = 1
                  /\ sb_txs[i].sends \in 1..Retries
                  /\ sb_txs[i].ixs[1] = [ix |-> "settle_bankruptcy", amount |-> 0, index |-> i]
             ELSE /\ CallsFor(i) = {}
                  /\ sb_txs[i] = NoTx
        /\ sb_ret = IF FailedCalls # {} THEN "SettlementFailure" ELSE "Ok"

\* A send that succeeded is the last send of its slot.
NoSendAfterSuccess ==
    \A i \in 1..SettleSlots :
        (\E k \in CallsFor(i) : sb_results[k][2] = "Ok") => sb_txs'[i] = sb_txs[i]

IsQuotient(x, num, den) ==
    /\ Abs(x * den - num * One) < den
    /\ (num > 0 => x >= 0)
    /\ (num < 0 => x <= 0)

\* The funding part of the realized entry.
FundingPart == pv_realized - FromNum(pv_acct.realized_pnl[1])

UserIndex == pv_acct.funding_index[1]

MarketIndex == pv_acct.funding_cache[1]

\* C35 as stated: the funding accrual of every slot is
\* pos_size * (market_funding_index - user.funding_index) / 10^asset_decimals
\* and the realized entry is realized_pnl plus that accrual.
C35_FundingMarketMinusUser ==
    pv_pc = "done" =>
        IsQuotient(FundingPart, pv_acct.pos_size[1] * (MarketIndex - UserIndex),
                   Pow10(pv_acct.asset_decimals[1]))

\* C35: for a slot with a position the funding accrual is
\* pos_size * (user.funding_index - market_funding_index) / 10^asset_decimals
\* and the realized entry is realized_pnl plus that accrual; for a slot
\* without a position both entries are zero, whatever its realized_pnl.
C35_FundingUserMinusMarket ==
    pv_pc = "done" =>
        IF pv_acct.pos_size[1] # 0
        THEN IsQuotient(FundingPart, pv_acct.pos_size[1] * (UserIndex - MarketIndex),
                        Pow10(pv_acct.asset_decimals[1]))
        ELSE pv_realized = 0 /\ pv_unrealized = 0

\* A short position whose market index is above the user's: the accrual is
\* positive.
C35_Witness ==
    /\ pv_pc = "done"
    /\ pv_acct.pos_size[1] < 0
    /\ MarketIndex > UserIndex
    /\ pv_acct.asset_decimals[1] = 1
    /\ FundingPart > 0

\* What the liqee owes of the asset and holds of the quote, in USDC, as
\* estimate_spot_liquidation_size values them.
Owed == SafeMul(-FromNum(sp_acct.collateral[sp_asset]), EstPriceVector(sp_acct)[sp_asset])

Held == SafeMul(FromNum(sp_acct.collateral[sp_quote]), EstPriceVector(sp_acct)[sp_quote])

\* C36: the USDC notional of the first liquidation instruction exceeds none
\* of 5 times the liquidator's account value, what the liqee owes of the
\* asset and what it holds of the quote.  Stated for the calls whose
\* estimate is a trade.
C36_WithinThreeBounds ==
    (sp_pc = "built" /\ SizeEstimate.kind = "Some") =>
        /\ sp_usdc <= sp_tav * Leverage
        /\ sp_usdc <= Owed
        /\ sp_usdc <= Held

\* C40: the asset_transfer_lots encoded in every liquidate_perp_position
\* instruction is the signed value the function holds, as a non-negative
\* integer: for no account value of the liquidator is a negative result sent
\* as an amount of 2^63 or more.
C40_LotsNeverReinterpreted ==
    pp_nsent >= 1 =>
        /\ pp_wire.lots[1] < LimbBase \div 2
        /\ pp_lots >= 0
        /\ pp_wire.lots = NatU64(pp_lots)

\* The pass has returned (it did not panic).
PassReturned == lq_pc = "done"

\* C39: an error while evaluating one Margin does not keep the remaining
\* Margins of the pass from being evaluated: when the pass returns, no key of
\* margin_table is left that the pass has not come to.
C39_ErrorsIsolated == PassReturned => lq_todo = {}

\* C37: two consecutive connection attempts of a recorder subscription, of
\* the program logs or of an event queue, are never less than 5 s apart.
C37_BackOffBetweenAttempts == su_gap >= BackOff

\* Transaction k can still reach events::process: it has, its job is
\* waiting, or a later poll can still keep it (last_slot never goes down).
StillReachable(k) ==
    \/ k \in pl_processed
    \/ k \in pl_tasks
    \/ pl_chain[k].slot > pl_last_slot

\* C38: poll_logs is a complete backstop: no non-failed transaction with a
\* slot above the startup slot is ever left where poll_logs can no longer
\* parse and insert it, whether its fetch failed once or more than the
\* polled number of signatures arrived between two polls; and last_slot
\* never decreases.
C38_CompleteBackstop ==
    /\ [](\A k \in 1..Len(pl_chain) :
            (~pl_chain[k].err /\ pl_chain[k].slot > StartupSlot) => StillReachable(k))
    /\ [][pl_last_slot' >= pl_last_slot]_vars

=============================================================================
